---- MODULE Spec2Model ----
(***************************************************************************)
(* Model of the go-fdo-client "onboard" command: doOnboard, the ownership  *)
(* transfer retry loop (transferOwnership), discovery (getOwnerURLs), the  *)
(* cancellable wait (applyDelay / addJitter) and the credential update     *)
(* (updateCred).  fdo.TO1, fdo.TO2, DNS lookups and the file system are    *)
(* the environment: their results are chosen nondeterministically.         *)
(*                                                                         *)
(* Sequences are 1-based here: directive i of the model is directive i-1   *)
(* of the Go code, and likewise for j (owner URL) and k (RV URL).          *)
(* Durations are in milliseconds.                                          *)
(***************************************************************************)
EXTENDS Integers, Sequences, FiniteSets, TLC

\* ------------------------------------------------------------------ bounds
MaxDirs == 2        \* longest directive list drawn in Init
MaxURLs == 2        \* most URLs in one directive
MaxAddrs == 1       \* most address entries in one TO1 response
MaxBase == 12       \* largest of the small base delays given to addJitter alone
MaxState == 6       \* largest State value a stored record is given in CmdInit
MaxSignals == 3     \* interrupt signals delivered to one process
MaxElems == 3       \* elements of a file name sent by the owner
MaxRV == 3          \* address entries of a TO1 response expanded entry by entry

\* --------------------------------------------------------------- constants
Nil == "nil"
DefaultDelay == 120000          \* 120 * time.Second
DirDelay == 4000                \* a configured RVDelaySec used in Init
RetryDelays == {0, 3000}        \* values of --to2-retry-delay used in Init
JitterDraws == {-2500, 0, 2499} \* 0.25*(2*rand.Float64()-1), in 1/10000

MaxUint16 == 65535
DefaultMTU == 1300
FDO_STATE_PC == 0
FDO_STATE_PRE_DI == 1
FDO_STATE_PRE_TO1 == 2
FDO_STATE_IDLE == 3

\* Error values
ErrNoRvInfo == "no rendezvous information"
ErrCanceled == "context canceled"
ErrTO2 == "to2 error"
ErrIO == "io error"
ErrState == "device state error"
ErrDI == "di error"
ErrUsage == "unknown flag"
ErrValidation == "validation error"

\* ---------------------------------------------------------------- inputs
URLPool == << [scheme |-> "http", host |-> "h1", port |-> 8041],
              [scheme |-> "https", host |-> "h2", port |-> 8043],
              [scheme |-> "http", host |-> "h3", port |-> 8041],
              [scheme |-> "https", host |-> "h4", port |-> 8043] >>

URLLists == { SubSeq(URLPool, 1, n) : n \in 0..MaxURLs }

Directive == [Bypass : BOOLEAN, URLs : URLLists, Delay : {0, DirDelay}]

RECURSIVE SeqsUpTo(_, _)
SeqsUpTo(S, n) ==
  IF n = 0 THEN { <<>> }
  ELSE LET shorter == SeqsUpTo(S, n - 1)
       IN  shorter \cup { Append(s, x) : s \in { t \in shorter : Len(t) = n - 1 }, x \in S }

DirectiveLists == SeqsUpTo(Directive, MaxDirs)

HTTPTransport == "http"
HTTPSTransport == "https"
OtherTransport == "tcp"

\* Address entries of a TO1 response (protocol.RvTO2Addr)
AddrEntries ==
  { [DNSAddress |-> "owner.example", IPAddress |-> "10.0.0.1", IPValid |-> TRUE,
     TransportProtocol |-> HTTPTransport, Port |-> 0],
    [DNSAddress |-> "alt.example", IPAddress |-> "bad", IPValid |-> FALSE,
     TransportProtocol |-> HTTPSTransport, Port |-> 8443],
    [DNSAddress |-> Nil, IPAddress |-> Nil, IPValid |-> FALSE,
     TransportProtocol |-> HTTPTransport, Port |-> 0],
    [DNSAddress |-> "alt.example", IPAddress |-> Nil, IPValid |-> FALSE,
     TransportProtocol |-> OtherTransport, Port |-> 9000] }

To1Responses == SeqsUpTo(AddrEntries, MaxAddrs)

\* to1d is nil (<<>>) or the TO1 response of the current visit (<<r>>),
\* identified by the directive visited
NoTo1d == <<>>

\* Outcomes of one fdo.TO2 call, (newDC, err): a new credential, an error,
\* or credential reuse (nil, nil), which the owner may answer with when
\* --allow-credential-reuse is given.
TO2Outcomes ==
  { [newDC |-> "dcNew", err |-> Nil],
    [newDC |-> Nil, err |-> ErrTO2],
    [newDC |-> Nil, err |-> Nil] }

\* ----------------------------------------------------------------- state
VARIABLES
  directives,            \* protocol.ParseDeviceRvInfo(rvInfo)
  to2RetryDelay,         \* --to2-retry-delay
  canceled,              \* clientContext is done
  pc,                    \* position of the command
  i, j, k,               \* directive, owner URL and RV URL being processed
  ownerURLs, to1d,       \* result of getOwnerURLs for this visit
  waitKind, waitBase, waitDur,   \* the applyDelay call in progress
  runCred, runErr,       \* what transferOwnership returned
  exitErr,               \* what doOnboard returned
  store,                 \* the persisted credential record
  credWrites,            \* number of times the record was replaced
  saveCalls,             \* number of updateCred calls
  passWaits,             \* directive-level waits of the current pass
  to2Succeeded,          \* some fdo.TO2 call returned a credential
  ev,                    \* the last step the command took
  sigs,                  \* signals buffered in the channel sigs (capacity 1)
  notify,                \* sigs is registered with signal.Notify
  listener,              \* position of the goroutine started by Execute
  sigCancels,            \* cancel() calls made by that goroutine
  signals,               \* interrupt signals delivered to the process
  cmdName,               \* cmd.Name() of the command being run
  args,                  \* the command line: flags given and positional URL
  flags,                 \* the pflag set of the command: Changed and Value
  cfg,                   \* the configuration file read into v
  diURL,                 \* server URL of device-init
  dlDir, wgetDir,        \* --download, --wget-dir
  enableInteropTest,     \* --enable-interop-test
  uploadArg,             \* the paths given with --upload
  maxServiceInfoSize,    \* --max-serviceinfo-size
  uploads,               \* the fsVar map behind --upload
  fsims,                 \* conf.DeviceModules of the last fdo.TO2 call
  MaxServiceInfoSizeReceive,  \* the field of the TO2Config doOnboard builds
  name,                  \* a file name sent by the owner service
  path,                  \* what NameToPath made of it
  rvAddrs,               \* to1d.Payload.Val.RV, the address entries of a response
  addrIdx,               \* the entry the loop of getOwnerURLs is at
  resolved               \* isResolvableDNS for the entry just handled

config == <<directives, to2RetryDelay>>
loopv == <<i, j, k, ownerURLs, to1d>>
waitv == <<waitKind, waitBase, waitDur>>
resv == <<runCred, runErr, exitErr>>
storev == <<store, credWrites, saveCalls>>
sigv == <<sigs, notify, listener, sigCancels, signals>>
optv == <<cmdName, args, flags, cfg, diURL>>
flagv == <<dlDir, wgetDir, enableInteropTest, uploadArg, maxServiceInfoSize>>
modv == <<uploads, fsims, MaxServiceInfoSizeReceive>>
pathv == <<name, path>>
expv == <<rvAddrs, addrIdx, resolved>>
auxv == <<sigv, optv, flagv, pathv, expv>>

vars == <<directives, to2RetryDelay, canceled, pc, i, j, k,
          ownerURLs, to1d, waitKind, waitBase, waitDur, runCred, runErr, exitErr,
          store, credWrites, saveCalls, passWaits,
          to2Succeeded, ev, sigs, notify, listener, sigCancels, signals,
          cmdName, args, flags, cfg, diURL, dlDir, wgetDir, enableInteropTest,
          uploadArg, maxServiceInfoSize, uploads, fsims, MaxServiceInfoSizeReceive,
          name, path, rvAddrs, addrIdx, resolved>>

\* The record device-init left in the blob file or NV index
\* The values the flags of onboard are given.  Directories and upload paths
\* are absolute, clean and exist, as validateOnboardFlags demands.
DownloadDirs == {"", "/dl"}
WgetDirs == {"", "/wget"}
UploadArgs == { {}, {"/var/log"}, {"/etc/hosts", "/var/log"} }
ServiceInfoSizes == {-1, 0, DefaultMTU, MaxUint16, MaxUint16 + 1}

\* fsVar.Set: one entry name -> absolute path for each path given.
UploadMap(paths) == { [name |-> q, abs |-> q] : q \in paths }

\* uploads["/"] = "", the entry fsVar.Open takes as access to every file.
RootSentinel == [name |-> "/", abs |-> ""]

\* Variant: the root entry is added to whatever was configured.
UploadFS_addroot(up) == up \cup {RootSentinel}

\* The map after transferOwnership2 has looked at it.
UploadFS(up) == IF up = {} THEN {RootSentinel} ELSE up

NoFsims == [names |-> {}, dlOverride |-> FALSE, wgetOverride |-> FALSE, FS |-> {}]

\* Variant: a module is enabled only when its option is given.
DeviceModules_optional(interop, dl, wget, fs) ==
  [ names |-> (IF interop THEN {"fido_alliance"} ELSE {})
                \cup {"fdo.command", "fdo.upload"}
                \cup (IF dl # "" THEN {"fdo.download"} ELSE {})
                \cup (IF wget # "" THEN {"fdo.wget"} ELSE {}),
    dlOverride |-> (dl # ""),
    wgetOverride |-> (wget # ""),
    FS |-> fs ]

\* The fsims map transferOwnership2 hands to fdo.TO2: the module names,
\* whether CreateTemp/NameToPath are set, and the FS of fdo.upload.
DeviceModules(interop, dl, wget, fs) ==
  [ names |-> (IF interop THEN {"fido_alliance"} ELSE {})
                \cup {"fdo.command", "fdo.download", "fdo.upload", "fdo.wget"},
    dlOverride |-> (dl # ""),
    wgetOverride |-> (wget # ""),
    FS |-> fs ]

\* Variant: only the lower limit is checked.
validateOnboardFlags_nolimit(size) ==
  IF size < 0 THEN ErrValidation ELSE Nil

\* validateOnboardFlags, for the options modelled here.
validateOnboardFlags(size) ==
  IF size < 0 \/ size > MaxUint16 THEN ErrValidation ELSE Nil

\* The flags at their defaults.
FlagInit ==
  /\ dlDir = "" /\ wgetDir = ""
  /\ enableInteropTest = FALSE
  /\ uploadArg = {}
  /\ maxServiceInfoSize = DefaultMTU

\* No fdo.TO2 call yet, no TO2Config built.
ModInit ==
  /\ uploads = UploadMap(uploadArg)
  /\ fsims = NoFsims
  /\ MaxServiceInfoSizeReceive = 0

\* No TO1 response is being expanded.
ExpInit == rvAddrs = <<>> /\ addrIdx = 0 /\ resolved = FALSE

\* No file name received.
NoPath == [abs |-> FALSE, parts |-> <<"?">>]

PathInit == name = NoPath /\ path = NoPath

\* Execute has registered sigs and started the goroutine; no signal yet.
ListenerInit ==
  /\ sigs = 0 /\ notify = TRUE /\ listener = "select"
  /\ sigCancels = 0 /\ signals = 0

\* The options of the command line and of the configuration file.
PersistentFlags == {"blob"}
LocalFlags == {"insecure-tls"}
FlagNames == PersistentFlags \cup LocalFlags
ConfigKeys == FlagNames \cup {"server-url"}
FlagDefault == "default"
CliValue == "cli"
FileValue == "file"

\* The flag set after cobra has parsed the command line a.
ParsedFlags(a) ==
  [n \in FlagNames |->
     IF a.flags[n] # Nil THEN [Changed |-> TRUE, Value |-> a.flags[n]]
     ELSE [Changed |-> FALSE, Value |-> FlagDefault]]

NoArgs == [flags |-> [n \in FlagNames |-> Nil], pos |-> Nil]

NoConfig == [top |-> [n \in ConfigKeys |-> Nil], sub |-> [n \in ConfigKeys |-> Nil]]

\* Options as the ownership-transfer run finds them: onboard, nothing given.
OptInit ==
  /\ cmdName = "onboard"
  /\ args = NoArgs
  /\ flags = ParsedFlags(NoArgs)
  /\ cfg = NoConfig
  /\ diURL = Nil

InitialStore == [nv |-> "data", DC |-> "dc0", State |-> FDO_STATE_PRE_TO1, Secrets |-> "k0"]

Init ==
  /\ directives \in DirectiveLists
  /\ to2RetryDelay \in RetryDelays
  /\ canceled = FALSE
  /\ pc = "start"
  /\ i = 0 /\ j = 0 /\ k = 0
  /\ ownerURLs = <<>> /\ to1d = NoTo1d
  /\ waitKind = Nil /\ waitBase = 0 /\ waitDur = 0
  /\ runCred = Nil /\ runErr = Nil /\ exitErr = Nil
  /\ store = InitialStore
  /\ credWrites = 0 /\ saveCalls = 0
  /\ passWaits = <<>>
  /\ to2Succeeded = FALSE
  /\ ev = [op |-> "init", arg |-> Nil]
  /\ ListenerInit
  /\ OptInit
  /\ FlagInit
  /\ ModInit
  /\ PathInit
  /\ ExpInit

\* ------------------------------------------------------- pure functions

\* Go's conversion float64 -> time.Duration truncates toward zero.
TruncDiv(a, b) == IF a >= 0 THEN a \div b ELSE -((-a) \div b)

\* Variant: the jitter is twice as wide, and never zero.
addJitter_wide(delay, draw) == delay + TruncDiv(delay * draw, 5000) + 1

\* addJitter: delay + Duration(float64(delay) * jitterPercent); draw is
\* jitterPercent in units of 1/10000.
addJitter(delay, draw) == delay + TruncDiv(delay * draw, 10000)

\* Variant: a plain sleep that never looks at the context.
applyDelay_sleep(ctxDone) == Nil

\* Variant: the wait reports the context's error even when the timer fired.
applyDelay_abort(ctxDone) == ErrCanceled

\* applyDelay's select, once one of its channels is ready: ctx.Done() gives
\* ctx.Err(), the timer gives nil.
applyDelay(ctxDone) == IF ctxDone THEN ErrCanceled ELSE Nil

\* Variant: the port of the entry is ignored.
AddrURLs_defaultport(a, resolves) ==
  IF a.DNSAddress = Nil /\ a.IPAddress = Nil THEN <<>>
  ELSE IF a.TransportProtocol \notin {HTTPTransport, HTTPSTransport} THEN <<>>
  ELSE LET scheme == IF a.TransportProtocol = HTTPTransport THEN "http" ELSE "https"
           port == IF a.TransportProtocol = HTTPTransport THEN 80 ELSE 443
           dnsPart == IF a.DNSAddress # Nil /\ resolves
                      THEN << [scheme |-> scheme, host |-> a.DNSAddress, port |-> port] >>
                      ELSE <<>>
           ipPart == IF a.IPAddress # Nil /\ a.IPValid
                     THEN << [scheme |-> scheme, host |-> a.IPAddress, port |-> port] >>
                     ELSE <<>>
       IN  dnsPart \o ipPart

\* Variant: an entry whose DNS name does not resolve contributes nothing.
AddrURLs_dnsgate(a, resolves) ==
  IF a.DNSAddress = Nil /\ a.IPAddress = Nil THEN <<>>
  ELSE IF a.TransportProtocol \notin {HTTPTransport, HTTPSTransport} THEN <<>>
  ELSE IF a.DNSAddress # Nil /\ ~resolves THEN <<>>
  ELSE LET scheme == IF a.TransportProtocol = HTTPTransport THEN "http" ELSE "https"
           defport == IF a.TransportProtocol = HTTPTransport THEN 80 ELSE 443
           port == IF a.Port # 0 THEN a.Port ELSE defport
           dnsPart == IF a.DNSAddress # Nil
                      THEN << [scheme |-> scheme, host |-> a.DNSAddress, port |-> port] >>
                      ELSE <<>>
           ipPart == IF a.IPAddress # Nil /\ a.IPValid
                     THEN << [scheme |-> scheme, host |-> a.IPAddress, port |-> port] >>
                     ELSE <<>>
       IN  dnsPart \o ipPart

\* Variant: the IP-based URL of an entry is appended before its DNS-based URL.
AddrURLs_ipfirst(a, resolves) ==
  IF a.DNSAddress = Nil /\ a.IPAddress = Nil THEN <<>>
  ELSE IF a.TransportProtocol \notin {HTTPTransport, HTTPSTransport} THEN <<>>
  ELSE LET scheme == IF a.TransportProtocol = HTTPTransport THEN "http" ELSE "https"
           defport == IF a.TransportProtocol = HTTPTransport THEN 80 ELSE 443
           port == IF a.Port # 0 THEN a.Port ELSE defport
           dnsPart == IF a.DNSAddress # Nil /\ resolves
                      THEN << [scheme |-> scheme, host |-> a.DNSAddress, port |-> port] >>
                      ELSE <<>>
           ipPart == IF a.IPAddress # Nil /\ a.IPValid
                     THEN << [scheme |-> scheme, host |-> a.IPAddress, port |-> port] >>
                     ELSE <<>>
       IN  ipPart \o dnsPart

\* The owner URLs one TO1 address entry contributes (loop body of
\* getOwnerURLs); resolves is the result of isResolvableDNS for this entry.
AddrURLs(a, resolves) ==
  IF a.DNSAddress = Nil /\ a.IPAddress = Nil THEN <<>>
  ELSE IF a.TransportProtocol \notin {HTTPTransport, HTTPSTransport} THEN <<>>
  ELSE LET scheme == IF a.TransportProtocol = HTTPTransport THEN "http" ELSE "https"
           defport == IF a.TransportProtocol = HTTPTransport THEN 80 ELSE 443
           port == IF a.Port # 0 THEN a.Port ELSE defport
           dnsPart == IF a.DNSAddress # Nil /\ resolves
                      THEN << [scheme |-> scheme, host |-> a.DNSAddress, port |-> port] >>
                      ELSE <<>>
           ipPart == IF a.IPAddress # Nil /\ a.IPValid
                     THEN << [scheme |-> scheme, host |-> a.IPAddress, port |-> port] >>
                     ELSE <<>>
       IN  dnsPart \o ipPart

\* Expansion of a TO1 response's address list, in order.
RECURSIVE ExpandAddrs(_, _, _)
ExpandAddrs(rv, res, n) ==
  IF n = 0 THEN <<>>
  ELSE ExpandAddrs(rv, res, n - 1) \o AddrURLs(rv[n], res[n])

\* Every owner-URL list getOwnerURLs can build from a TO1 response: each
\* response in To1Responses with each outcome of the DNS lookups.
To1Expansions ==
  { ExpandAddrs(rv, res, Len(rv)) : rv \in To1Responses, res \in [1..MaxAddrs -> BOOLEAN] }

\* Variant: the retry delay is applied after every failed owner URL, the
\* last one included.
HandleTO2_waitlast(newDC, err, isLastURL, retryDelay) ==
  IF newDC # Nil
  THEN [ret |-> TRUE, cred |-> newDC, err |-> Nil, wait |-> FALSE]
  ELSE [ret |-> FALSE, cred |-> Nil, err |-> Nil, wait |-> retryDelay > 0]

\* Variant: the success check is missing, a credential is treated as a failure.
HandleTO2_noreturn(newDC, err, isLastURL, retryDelay) ==
  [ret |-> FALSE, cred |-> Nil, err |-> Nil, wait |-> (~isLastURL /\ retryDelay > 0)]

\* Variant: a TO2 error is returned to the caller instead of being absorbed.
HandleTO2_propagate(newDC, err, isLastURL, retryDelay) ==
  IF newDC # Nil \/ err # Nil
  THEN [ret |-> TRUE, cred |-> newDC, err |-> err, wait |-> FALSE]
  ELSE [ret |-> FALSE, cred |-> Nil, err |-> Nil,
        wait |-> (~isLastURL /\ retryDelay > 0)]

\* transferOwnership's reaction to the result of one transferOwnership2 call.
HandleTO2(newDC, err, isLastURL, retryDelay) ==
  IF newDC # Nil
  THEN [ret |-> TRUE, cred |-> newDC, err |-> Nil, wait |-> FALSE]
  ELSE [ret |-> FALSE, cred |-> Nil, err |-> Nil,
        wait |-> (~isLastURL /\ retryDelay > 0)]

\* Variant: the emptiness check of the directive list is missing.
NoUsableRvInfo_never(ds) == FALSE

\* transferOwnership's check of the parsed directive list.
NoUsableRvInfo(ds) == Len(ds) = 0

\* Variant: the default delay is applied to any directive without a delay,
\* not only to the last one.
DirectiveDelay_anyzero(delay, isLastDirective) ==
  IF delay # 0 THEN [wait |-> TRUE, kind |-> "directive", base |-> delay]
  ELSE [wait |-> TRUE, kind |-> "default", base |-> DefaultDelay]

\* Variant: there is no default delay; only a configured delay is waited.
DirectiveDelay_nodefault(delay, isLastDirective) ==
  IF delay # 0 THEN [wait |-> TRUE, kind |-> "directive", base |-> delay]
  ELSE [wait |-> FALSE, kind |-> Nil, base |-> 0]

\* Variant: the last directive always gets the default delay, whatever its
\* own delay.
DirectiveDelay_lastdefault(delay, isLastDirective) ==
  IF isLastDirective THEN [wait |-> TRUE, kind |-> "default", base |-> DefaultDelay]
  ELSE IF delay # 0 THEN [wait |-> TRUE, kind |-> "directive", base |-> delay]
  ELSE [wait |-> FALSE, kind |-> Nil, base |-> 0]

\* Step 3 of transferOwnership: which delay follows a directive.
DirectiveDelay(delay, isLastDirective) ==
  IF delay # 0 THEN [wait |-> TRUE, kind |-> "directive", base |-> delay]
  ELSE IF isLastDirective THEN [wait |-> TRUE, kind |-> "default", base |-> DefaultDelay]
  ELSE [wait |-> FALSE, kind |-> Nil, base |-> 0]

\* Variant: the error check after transferOwnership is missing.
AfterRun_alwayssave(newDC, err) == [save |-> TRUE, err |-> Nil]

\* doOnboard's reaction to the result of transferOwnership.
AfterRun(newDC, err) ==
  IF err # Nil THEN [save |-> FALSE, err |-> err]
  ELSE IF newDC = Nil THEN [save |-> FALSE, err |-> Nil]
  ELSE [save |-> TRUE, err |-> Nil]

\* The NV index after TpmNVWrite failed past its undefine step.
Lost(what) == [nv |-> what, DC |-> Nil, State |-> 0, Secrets |-> Nil]

SaveSteps(tpm) ==
  IF tpm THEN {"ok", "fail_early", "fail_define", "fail_write"}
  ELSE {"ok", "fail_early"}

\* Variant: the record saved is built from the new credential alone.
updateCred_fresh(st, newDC, state, readOK, save) ==
  IF ~readOK THEN [store |-> st, err |-> ErrIO, wrote |-> FALSE]
  ELSE LET dc == [nv |-> "data", DC |-> newDC, State |-> state, Secrets |-> Nil]
       IN  CASE save = "ok" -> [store |-> dc, err |-> Nil, wrote |-> TRUE]
             [] save = "fail_early" -> [store |-> st, err |-> ErrIO, wrote |-> FALSE]
             [] save = "fail_define" -> [store |-> Lost("undefined"), err |-> ErrIO, wrote |-> FALSE]
             [] save = "fail_write" -> [store |-> Lost("blank"), err |-> ErrIO, wrote |-> FALSE]

\* updateCred: read the stored record, replace DC and State, save it.
\* readOK: readCredFile / readTpmCred succeeded.  save: how far the save got
\* (blob: temp file then rename; TPM: undefine, define, write).
updateCred(st, newDC, state, readOK, save) ==
  IF ~readOK THEN [store |-> st, err |-> ErrIO, wrote |-> FALSE]
  ELSE LET dc == [st EXCEPT !.DC = newDC, !.State = state]
       IN  CASE save = "ok" -> [store |-> dc, err |-> Nil, wrote |-> TRUE]
             [] save = "fail_early" -> [store |-> st, err |-> ErrIO, wrote |-> FALSE]
             [] save = "fail_define" -> [store |-> Lost("undefined"), err |-> ErrIO, wrote |-> FALSE]
             [] save = "fail_write" -> [store |-> Lost("blank"), err |-> ErrIO, wrote |-> FALSE]

\* -------------------------------------------------------------- actions

Event(op, arg) == [op |-> op, arg |-> arg]

InLoop == pc \in {"discover", "to1", "to2", "delay", "wait"}

\* Variant: a single pass; after the last directive Run gives up.
NextDirective_once ==
  IF i < Len(directives)
  THEN pc' = "discover" /\ i' = i + 1
  ELSE pc' = "returned" /\ UNCHANGED i

\* Variant: after a directive the loop starts over at the first directive.
NextDirective_restart ==
  /\ pc' = "discover"
  /\ i' = 1

\* End of the directive loop body: next directive, or a new pass.
NextDirective ==
  /\ pc' = "discover"
  /\ i' = IF i < Len(directives) THEN i + 1 ELSE 1

\* doOnboard calls transferOwnership, which parses the directives.
RunStart ==
  /\ pc = "start"
  /\ IF NoUsableRvInfo(directives)
     THEN /\ pc' = "returned"
          /\ runCred' = Nil /\ runErr' = ErrNoRvInfo
          /\ ev' = Event("config_error", Nil)
          /\ UNCHANGED i
     ELSE /\ pc' = "discover"
          /\ i' = 1
          /\ ev' = Event("loop_start", Nil)
          /\ UNCHANGED <<runCred, runErr>>
  /\ MaxServiceInfoSizeReceive' = maxServiceInfoSize % (MaxUint16 + 1)
  /\ UNCHANGED <<config, auxv, uploads, fsims, canceled, j, k, ownerURLs, to1d,
                 waitv, exitErr, storev, passWaits, to2Succeeded>>

\* Variant: the bypass flag is ignored, every directive goes through TO1.
Discover_ignorebypass ==
  /\ pc = "discover"
  /\ ownerURLs' = <<>> /\ to1d' = NoTo1d /\ j' = 0
  /\ IF Len(directives[i].URLs) = 0
     THEN pc' = "delay" /\ k' = 0
     ELSE pc' = "to1" /\ k' = 1
  /\ ev' = Event("to1_loop", Nil)
  /\ passWaits' = IF i = 1 THEN <<>> ELSE passWaits
  /\ UNCHANGED <<config, auxv, modv, canceled, i, waitv, resv, storev, to2Succeeded>>

\* getOwnerURLs up to its first suspension point.  A URL is the same model
\* value ([scheme, host, port]) as a *url.URL of the directive and as the
\* string url.String() makes of it.
Discover ==
  /\ pc = "discover"
  /\ LET d == directives[i] IN
     IF d.Bypass
     THEN /\ to1d' = NoTo1d
          /\ IF Len(d.URLs) = 0
             THEN pc' = "delay" /\ j' = 0 /\ ownerURLs' = <<>>
             ELSE pc' = "to2" /\ j' = 1 /\ ownerURLs' = d.URLs
          /\ k' = 0
          /\ ev' = Event("bypass", Nil)
     ELSE /\ ownerURLs' = <<>> /\ to1d' = NoTo1d /\ j' = 0
          /\ IF Len(d.URLs) = 0
             THEN pc' = "delay" /\ k' = 0
             ELSE pc' = "to1" /\ k' = 1
          /\ ev' = Event("to1_loop", Nil)
  /\ passWaits' = IF i = 1 THEN <<>> ELSE passWaits
  /\ UNCHANGED <<config, auxv, modv, canceled, i, waitv, resv, storev, to2Succeeded>>

\* Variant: when TO1 has failed on every RV URL of the directive, Run gives
\* up with an error instead of going on to the delay phase.
TO1Fail_giveup ==
  /\ pc = "to1"
  /\ IF k < Len(directives[i].URLs)
     THEN /\ k' = k + 1
          /\ UNCHANGED <<pc, runCred, runErr>>
     ELSE /\ pc' = "returned"
          /\ k' = 0
          /\ runCred' = Nil /\ runErr' = "to1 error"
  /\ ev' = Event("to1_failed", Nil)
  /\ UNCHANGED <<config, auxv, modv, canceled, i, j, ownerURLs, to1d, waitv, exitErr, storev,
                 passWaits, to2Succeeded>>

\* fdo.TO1 on RV URL k returned an error.
TO1Fail ==
  /\ pc = "to1"
  /\ IF k < Len(directives[i].URLs)
     THEN /\ k' = k + 1
          /\ UNCHANGED pc
     ELSE /\ pc' = "delay"
          /\ k' = 0
  /\ ev' = Event("to1_failed", Nil)
  /\ UNCHANGED <<config, auxv, modv, canceled, i, j, ownerURLs, to1d, waitv, resv, storev,
                 passWaits, to2Succeeded>>

\* Names of the RV URLs of a directive by position, for the event record.
RVName == <<"rv1", "rv2", "rv3", "rv4">>

\* Variant: a TO1 success does not end the loop over the RV URLs; the
\* remaining RV URLs are contacted as well.
TO1Succeed_multihome ==
  /\ pc = "to1"
  /\ \E urls \in To1Expansions :
       IF k < Len(directives[i].URLs)
       THEN /\ pc' = "to1" /\ k' = k + 1 /\ j' = 0
            /\ ownerURLs' = urls /\ to1d' = << [visit |-> i] >>
       ELSE /\ k' = 0
            /\ IF Len(urls) = 0
               THEN /\ pc' = "delay" /\ j' = 0
                    /\ ownerURLs' = <<>> /\ to1d' = NoTo1d
               ELSE /\ pc' = "to2" /\ j' = 1
                    /\ ownerURLs' = urls /\ to1d' = << [visit |-> i] >>
  /\ ev' = Event("to1_succeeded", RVName[k])
  /\ UNCHANGED <<config, auxv, modv, canceled, i, waitv, resv, storev, passWaits,
                 to2Succeeded>>

\* Variant: the redirect handed to TO2 is the one of the first directive.
TO1Succeed_stale ==
  /\ pc = "to1"
  /\ \E urls \in To1Expansions :
       IF Len(urls) = 0
       THEN /\ pc' = "delay" /\ j' = 0
            /\ ownerURLs' = <<>> /\ to1d' = NoTo1d
            /\ ev' = Event("to1_succeeded", RVName[k])
       ELSE /\ pc' = "to2" /\ j' = 1
            /\ ownerURLs' = urls /\ to1d' = << [visit |-> 1] >>
            /\ ev' = Event("to1_succeeded", RVName[k])
  /\ k' = 0
  /\ UNCHANGED <<config, auxv, modv, canceled, i, waitv, resv, storev, passWaits,
                 to2Succeeded>>

\* fdo.TO1 on RV URL k succeeded; the response is expanded into owner URLs.
\* An expansion without owner URLs ends the visit like a failed discovery.
TO1Succeed ==
  /\ pc = "to1"
  /\ \E urls \in To1Expansions :
       IF Len(urls) = 0
       THEN /\ pc' = "delay" /\ j' = 0
            /\ ownerURLs' = <<>> /\ to1d' = NoTo1d
            /\ ev' = Event("to1_succeeded", RVName[k])
       ELSE /\ pc' = "to2" /\ j' = 1
            /\ ownerURLs' = urls /\ to1d' = << [visit |-> i] >>
            /\ ev' = Event("to1_succeeded", RVName[k])
  /\ k' = 0
  /\ UNCHANGED <<config, auxv, modv, canceled, i, waitv, resv, storev, passWaits,
                 to2Succeeded>>

\* transferOwnership2 (fdo.TO2) on owner URL j returned.  ownerURLs, to1d
\* and j are not read once the owner-URL loop is over: they are cleared when
\* the loop is exhausted, and ownerURLs and to1d when Run returns out of it.
TO2Return ==
  /\ pc = "to2"
  /\ \E o \in TO2Outcomes :
       LET h == HandleTO2(o.newDC, o.err, j = Len(ownerURLs), to2RetryDelay) IN
       /\ to2Succeeded' = (to2Succeeded \/ o.newDC # Nil)
       /\ ev' = Event("to2_returned",
                      IF o.newDC # Nil THEN "credential"
                      ELSE IF o.err = Nil THEN "reuse" ELSE "error")
       /\ IF h.ret
          THEN /\ pc' = "returned"
               /\ runCred' = h.cred /\ runErr' = h.err
               /\ ownerURLs' = <<>> /\ to1d' = NoTo1d
               /\ UNCHANGED <<j, waitv>>
          ELSE /\ UNCHANGED <<runCred, runErr>>
               /\ IF h.wait
                  THEN /\ pc' = "wait"
                       /\ waitKind' = "retry"
                       /\ waitBase' = to2RetryDelay /\ waitDur' = to2RetryDelay
                       /\ UNCHANGED <<j, ownerURLs, to1d>>
                  ELSE /\ UNCHANGED waitv
                       /\ IF j < Len(ownerURLs)
                          THEN /\ pc' = "to2" /\ j' = j + 1
                               /\ UNCHANGED <<ownerURLs, to1d>>
                          ELSE /\ pc' = "delay" /\ j' = 0
                               /\ ownerURLs' = <<>> /\ to1d' = NoTo1d
  /\ uploads' = UploadFS(uploads)
  /\ fsims' = DeviceModules(enableInteropTest, dlDir, wgetDir, UploadFS(uploads))
  /\ UNCHANGED <<config, auxv, MaxServiceInfoSizeReceive, canceled, i, k, exitErr,
                 storev, passWaits>>

\* Step 3 of the loop body: the delay after a directive's attempts.
DelayPhase ==
  /\ pc = "delay"
  /\ LET d == DirectiveDelay(directives[i].Delay, i = Len(directives)) IN
     IF d.wait
     THEN /\ \E draw \in JitterDraws : waitDur' = addJitter(d.base, draw)
          /\ pc' = "wait"
          /\ waitKind' = d.kind /\ waitBase' = d.base
          /\ passWaits' = Append(passWaits, [idx |-> i, kind |-> d.kind, base |-> d.base])
          /\ ev' = Event("delay", d.kind)
          /\ UNCHANGED i
     ELSE /\ NextDirective
          /\ ev' = Event("no_delay", Nil)
          /\ UNCHANGED <<waitv, passWaits>>
  /\ UNCHANGED <<config, auxv, modv, canceled, j, k, ownerURLs, to1d, resv, storev,
                 to2Succeeded>>

\* applyDelay returns: the context is done, or the timer fired.
WaitReturn ==
  /\ pc = "wait"
  /\ LET e == applyDelay(canceled) IN
     IF e # Nil
     THEN /\ pc' = "returned"
          /\ runCred' = Nil /\ runErr' = e
          /\ ownerURLs' = <<>> /\ to1d' = NoTo1d
          /\ ev' = Event("wait_canceled", waitKind)
          /\ UNCHANGED <<i, j>>
     ELSE /\ UNCHANGED <<runCred, runErr, ownerURLs, to1d>>
          /\ ev' = Event("wait_elapsed", waitKind)
          /\ IF waitKind = "retry"
             THEN /\ pc' = "to2" /\ j' = j + 1
                  /\ UNCHANGED i
             ELSE /\ NextDirective
                  /\ UNCHANGED j
  /\ waitKind' = Nil /\ waitBase' = 0 /\ waitDur' = 0
  /\ UNCHANGED <<config, auxv, modv, canceled, k, exitErr, storev, passWaits, to2Succeeded>>

\* doOnboard after transferOwnership has returned.  tpm: updateCred finds
\* tpmPath set (TPM NV index) or not (blob file).
Finish ==
  /\ pc = "returned"
  /\ pc' = "done"
  /\ LET a == AfterRun(runCred, runErr) IN
     IF a.save
     THEN \E tpm \in BOOLEAN, readOK \in BOOLEAN :
          \E save \in SaveSteps(tpm) :
            LET u == updateCred(store, runCred, FDO_STATE_IDLE, readOK, save) IN
            /\ store' = u.store
            /\ exitErr' = u.err
            /\ credWrites' = credWrites + (IF u.wrote THEN 1 ELSE 0)
            /\ saveCalls' = saveCalls + 1
            /\ ev' = Event("update_cred",
                           IF u.wrote THEN "written"
                           ELSE IF ~readOK THEN "read_failed" ELSE "save_failed")
     ELSE /\ exitErr' = a.err
          /\ ev' = Event("exit", Nil)
          /\ UNCHANGED storev
  /\ UNCHANGED <<config, auxv, modv, canceled, loopv, waitv, runCred, runErr, passWaits,
                 to2Succeeded>>

\* The signal listener of Execute cancels clientContext.
Cancel ==
  /\ ~canceled
  /\ pc # "done"
  /\ canceled' = TRUE
  /\ UNCHANGED <<config, auxv, modv, pc, loopv, waitv, resv, storev, passWaits, to2Succeeded,
                 ev>>

Next ==
  \/ RunStart
  \/ Discover
  \/ TO1Fail
  \/ TO1Succeed
  \/ TO2Return
  \/ DelayPhase
  \/ WaitReturn
  \/ Finish
  \/ Cancel

Spec == Init /\ [][Next]_vars

\* ------------------------------------------- the loop left to itself
\* transferOwnership with a context that is never canceled, and with TO1 and
\* TO2 calls and waits that all return: the loop is one goroutine, so some
\* step of it is always taken.
LiveDirectiveLists ==
  { << [Bypass |-> TRUE, URLs |-> SubSeq(URLPool, 1, 2), Delay |-> DirDelay],
       [Bypass |-> FALSE, URLs |-> SubSeq(URLPool, 1, 1), Delay |-> 0] >>,
    << [Bypass |-> FALSE, URLs |-> SubSeq(URLPool, 1, 2), Delay |-> 0] >>,
    << [Bypass |-> FALSE, URLs |-> <<>>, Delay |-> DirDelay],
       [Bypass |-> TRUE, URLs |-> SubSeq(URLPool, 1, 1), Delay |-> 0] >>,
    << [Bypass |-> TRUE, URLs |-> SubSeq(URLPool, 1, 1), Delay |-> 0],
       [Bypass |-> FALSE, URLs |-> SubSeq(URLPool, 1, 2), Delay |-> 0] >> }

LiveInit ==
  /\ directives \in LiveDirectiveLists
  /\ to2RetryDelay \in RetryDelays
  /\ canceled = FALSE
  /\ pc = "start"
  /\ i = 0 /\ j = 0 /\ k = 0
  /\ ownerURLs = <<>> /\ to1d = NoTo1d
  /\ waitKind = Nil /\ waitBase = 0 /\ waitDur = 0
  /\ runCred = Nil /\ runErr = Nil /\ exitErr = Nil
  /\ store = InitialStore
  /\ credWrites = 0 /\ saveCalls = 0
  /\ passWaits = <<>>
  /\ to2Succeeded = FALSE
  /\ ev = Event("init", Nil)
  /\ ListenerInit
  /\ OptInit
  /\ FlagInit
  /\ ModInit
  /\ PathInit
  /\ ExpInit

LiveNext ==
  \/ RunStart
  \/ Discover
  \/ TO1Fail
  \/ TO1Succeed
  \/ TO2Return
  \/ DelayPhase
  \/ WaitReturn
  \/ Finish

SpecLive == LiveInit /\ [][LiveNext]_vars /\ WF_vars(LiveNext)

\* The same loop with a context that may be canceled at any moment.  A
\* cancellation need not happen; the calls and waits of the loop return.
CancelNext ==
  \/ LiveNext
  \/ Cancel

SpecCancel == LiveInit /\ [][CancelNext]_vars /\ WF_vars(LiveNext)

\* ------------------------------------------------- the two commands
\* Invocations of `device-init` and `onboard`, one after the other, on one
\* credential store.  The store is the blob file or the TPM NV index; every
\* outcome of a blob save is also an outcome of a TPM save, so a behaviour
\* here is a behaviour with a TPM, and one without "fail_define" and
\* "fail_write" is also a behaviour with a blob file.

\* No credential yet: the blob file is missing or empty, the NV index is not
\* defined.
EmptyStore == [nv |-> "none", DC |-> Nil, State |-> 0, Secrets |-> Nil]

\* The record doDI saves.
DIRecord == [nv |-> "data", DC |-> "dcDI", State |-> FDO_STATE_PRE_TO1, Secrets |-> "kDI"]

CmdStores ==
  {EmptyStore} \cup { [InitialStore EXCEPT !.State = st] : st \in 0..MaxState }

CmdDirectiveLists ==
  { <<>>, << [Bypass |-> FALSE, URLs |-> <<URLPool[1]>>, Delay |-> 0] >> }

\* loadDeviceStatus.  readOK: the record can be read and decoded.
loadDeviceStatus(st, readOK) ==
  IF st.nv \in {"none", "undefined"} THEN [state |-> FDO_STATE_PRE_DI, err |-> Nil]
  ELSE IF st.nv = "blank" \/ ~readOK THEN [state |-> FDO_STATE_PC, err |-> ErrIO]
  ELSE [state |-> st.State, err |-> Nil]

\* Variant: the resale flag is ignored.
OnboardAction_noresale(deviceStatus, resale) ==
  IF deviceStatus = FDO_STATE_PRE_TO1 THEN "onboard"
  ELSE IF deviceStatus = FDO_STATE_IDLE THEN "already_onboarded"
  ELSE IF deviceStatus = FDO_STATE_PRE_DI THEN "need_di"
  ELSE "invalid_state"

\* The branch onboardCmd.RunE takes on the loaded device state.
OnboardAction(deviceStatus, resale) ==
  IF deviceStatus = FDO_STATE_PRE_TO1 \/ (deviceStatus = FDO_STATE_IDLE /\ resale)
  THEN "onboard"
  ELSE IF deviceStatus = FDO_STATE_IDLE THEN "already_onboarded"
  ELSE IF deviceStatus = FDO_STATE_PRE_DI THEN "need_di"
  ELSE "invalid_state"

\* Variant: device-init treats a device without credential as initialized.
DeviceInitAction_skip(deviceStatus) ==
  IF deviceStatus \in {FDO_STATE_PRE_DI, FDO_STATE_PRE_TO1} THEN "already_initialized"
  ELSE IF deviceStatus = FDO_STATE_IDLE THEN "already_onboarded"
  ELSE "invalid_state"

\* The branch deviceInitCmd.RunE takes on the loaded device state.
DeviceInitAction(deviceStatus) ==
  IF deviceStatus = FDO_STATE_PRE_DI THEN "di"
  ELSE IF deviceStatus = FDO_STATE_PRE_TO1 THEN "already_initialized"
  ELSE IF deviceStatus = FDO_STATE_IDLE THEN "already_onboarded"
  ELSE "invalid_state"

\* saveCred / saveTpmCred of a whole record, by how far the save got.
saveRecord(st, rec, save) ==
  CASE save = "ok" -> rec
    [] save = "fail_early" -> st
    [] save = "fail_define" -> Lost("undefined")
    [] save = "fail_write" -> Lost("blank")

CmdInit ==
  /\ directives \in CmdDirectiveLists
  /\ to2RetryDelay = 0
  /\ canceled = FALSE
  /\ pc = "cmd"
  /\ i = 0 /\ j = 0 /\ k = 0
  /\ ownerURLs = <<>> /\ to1d = NoTo1d
  /\ waitKind = Nil /\ waitBase = 0 /\ waitDur = 0
  /\ runCred = Nil /\ runErr = Nil /\ exitErr = Nil
  /\ store \in CmdStores
  /\ credWrites = 0 /\ saveCalls = 0
  /\ passWaits = <<>>
  /\ to2Succeeded = FALSE
  /\ ev = Event("init", Nil)
  /\ ListenerInit
  /\ OptInit
  /\ dlDir \in DownloadDirs /\ wgetDir \in WgetDirs
  /\ enableInteropTest \in BOOLEAN
  /\ uploadArg \in UploadArgs
  /\ maxServiceInfoSize \in ServiceInfoSizes
  /\ ModInit
  /\ PathInit
  /\ ExpInit

\* onboardCmd.RunE up to the call of doOnboard: validateOnboardFlags,
\* loadDeviceStatus, then the branch on the device state.  readCred in doOnboard reads
\* again the record loadDeviceStatus has just read.
OnboardCmd ==
  /\ pc = "cmd"
  /\ \E resale \in BOOLEAN, readOK \in BOOLEAN :
       LET l == loadDeviceStatus(store, readOK)
           a == OnboardAction(l.state, resale)
           op == IF resale THEN "onboard_resale" ELSE "onboard_plain"
       IN  IF validateOnboardFlags(maxServiceInfoSize) # Nil
           THEN /\ pc' = "done"
                /\ exitErr' = validateOnboardFlags(maxServiceInfoSize)
                /\ ev' = Event(op, "validation_error")
           ELSE IF l.err # Nil
           THEN /\ pc' = "done" /\ exitErr' = l.err
                /\ ev' = Event(op, "load_failed")
           ELSE /\ ev' = Event(op, a)
                /\ IF a = "onboard"
                   THEN pc' = "start" /\ UNCHANGED exitErr
                   ELSE /\ pc' = "done"
                        /\ exitErr' = (IF a = "already_onboarded" THEN Nil ELSE ErrState)
  /\ UNCHANGED <<config, auxv, modv, canceled, loopv, waitv, runCred, runErr, storev,
                 passWaits, to2Succeeded>>

\* deviceInitCmd.RunE, with doDI: fdo.DI, then the save of the new record
\* with state PreTO1.
DeviceInitCmd ==
  /\ pc = "cmd"
  /\ pc' = "done"
  /\ \E readOK \in BOOLEAN, diOK \in BOOLEAN, tpm \in BOOLEAN :
     \E save \in SaveSteps(tpm) :
       LET l == loadDeviceStatus(store, readOK)
           a == DeviceInitAction(l.state)
       IN  IF l.err # Nil
           THEN /\ exitErr' = l.err
                /\ ev' = Event("device_init", "load_failed")
                /\ UNCHANGED store
           ELSE /\ ev' = Event("device_init", a)
                /\ IF a = "di"
                   THEN IF diOK
                        THEN /\ store' = saveRecord(store, DIRecord, save)
                             /\ exitErr' = (IF save = "ok" THEN Nil ELSE ErrIO)
                        ELSE /\ exitErr' = ErrDI
                             /\ UNCHANGED store
                   ELSE /\ exitErr' = (IF a = "already_initialized" THEN Nil ELSE ErrState)
                        /\ UNCHANGED store
  /\ UNCHANGED <<config, auxv, modv, canceled, loopv, waitv, runCred, runErr, credWrites,
                 saveCalls, passWaits, to2Succeeded>>

\* The flags onboard accepts: its own, the persistent ones of the root
\* command, and cobra's help flag.
OnboardFlags ==
  { "allow-credential-reuse", "cipher", "download", "key", "enable-interop-test",
    "kex", "insecure-tls", "max-serviceinfo-size", "resale", "to2-retry-delay",
    "upload", "wget-dir", "config", "blob", "debug", "tpm", "help" }

\* The flags the README lists for onboard.
ReadmeFlags ==
  { "allow-credential-reuse", "cipher", "download", "echo-commands", "help",
    "insecure-tls", "kex", "key", "max-serviceinfo-size", "resale", "rv-only",
    "to2-retry-delay", "upload", "wget-dir", "blob", "debug", "tpm" }

\* onboard called with a documented flag that the command does not define:
\* flag parsing fails with "unknown flag" and RunE is not called.
OnboardUnknownFlag ==
  /\ pc = "cmd"
  /\ \E f \in ReadmeFlags \ OnboardFlags :
       ev' = Event("onboard_unknown_flag", f)
  /\ pc' = "done"
  /\ exitErr' = ErrUsage
  /\ UNCHANGED <<config, auxv, modv, canceled, loopv, waitv, runCred, runErr, storev,
                 passWaits, to2Succeeded>>

\* The command has exited; the next invocation is a new process.
CmdReset ==
  /\ pc = "done"
  /\ pc' = "cmd"
  /\ canceled' = FALSE
  /\ i' = 0 /\ j' = 0 /\ k' = 0
  /\ ownerURLs' = <<>> /\ to1d' = NoTo1d
  /\ waitKind' = Nil /\ waitBase' = 0 /\ waitDur' = 0
  /\ runCred' = Nil /\ runErr' = Nil /\ exitErr' = Nil
  /\ credWrites' = 0 /\ saveCalls' = 0
  /\ passWaits' = <<>>
  /\ to2Succeeded' = FALSE
  /\ ev' = Event("init", Nil)
  /\ uploads' = UploadMap(uploadArg)
  /\ fsims' = NoFsims
  /\ MaxServiceInfoSizeReceive' = 0
  /\ UNCHANGED <<config, auxv, store>>

CmdNext ==
  \/ OnboardCmd
  \/ OnboardUnknownFlag
  \/ DeviceInitCmd
  \/ CmdReset
  \/ Next

SpecCmd == CmdInit /\ [][CmdNext]_vars

\* ------------------------------------------- the interrupt listener
\* Execute with its goroutine, around an onboard run.  Here the context is
\* cancelled by the goroutine, not by the abstract Cancel step.
SigDirectiveLists ==
  { << [Bypass |-> TRUE, URLs |-> <<URLPool[1]>>, Delay |-> 0] >>,
    << [Bypass |-> FALSE, URLs |-> <<URLPool[1]>>, Delay |-> 0] >> }

SigInit ==
  /\ directives \in SigDirectiveLists
  /\ to2RetryDelay = 0
  /\ canceled = FALSE
  /\ pc = "start"
  /\ i = 0 /\ j = 0 /\ k = 0
  /\ ownerURLs = <<>> /\ to1d = NoTo1d
  /\ waitKind = Nil /\ waitBase = 0 /\ waitDur = 0
  /\ runCred = Nil /\ runErr = Nil /\ exitErr = Nil
  /\ store = InitialStore
  /\ credWrites = 0 /\ saveCalls = 0
  /\ passWaits = <<>>
  /\ to2Succeeded = FALSE
  /\ ev = Event("init", Nil)
  /\ ListenerInit
  /\ OptInit
  /\ FlagInit
  /\ ModInit
  /\ PathInit
  /\ ExpInit

\* The process is running: it was not terminated by a signal.  The goroutine
\* can still run while and after Execute returns.
Alive == pc # "killed"

\* An interrupt signal reaches the process.  While sigs is registered the
\* runtime sends on it without blocking, dropping the signal when the buffer
\* is full; after signal.Stop the signal has its default effect again and
\* terminates the process.
Signal ==
  /\ Alive
  /\ signals < MaxSignals
  /\ signals' = signals + 1
  /\ IF notify
     THEN /\ sigs' = (IF sigs < 1 THEN sigs + 1 ELSE sigs)
          /\ UNCHANGED pc
     ELSE /\ pc' = "killed"
          /\ UNCHANGED sigs
  /\ UNCHANGED <<config, optv, flagv, pathv, expv, modv, canceled, loopv, waitv, resv, storev,
                 passWaits, to2Succeeded, ev, notify, listener, sigCancels>>

\* Variant: the goroutine goes back to its select after cancel().
ListenerWake_stay ==
  /\ Alive
  /\ listener = "select"
  /\ sigs > 0
  /\ sigs' = sigs - 1
  /\ canceled' = TRUE
  /\ sigCancels' = sigCancels + 1
  /\ UNCHANGED <<config, optv, flagv, pathv, expv, modv, pc, loopv, waitv, resv, storev,
                 passWaits, to2Succeeded, ev, notify, listener, signals>>

\* case <-sigs: cancel()
ListenerWake ==
  /\ Alive
  /\ listener = "select"
  /\ sigs > 0
  /\ sigs' = sigs - 1
  /\ canceled' = TRUE
  /\ sigCancels' = sigCancels + 1
  /\ listener' = "stopping"
  /\ UNCHANGED <<config, optv, flagv, pathv, expv, modv, pc, loopv, waitv, resv, storev,
                 passWaits, to2Succeeded, ev, notify, signals>>

\* defer signal.Stop(sigs), then the goroutine ends.
ListenerStop ==
  /\ Alive
  /\ listener = "stopping"
  /\ notify' = FALSE
  /\ listener' = "exited"
  /\ UNCHANGED <<config, optv, flagv, pathv, expv, modv, canceled, pc, loopv, waitv, resv,
                 storev, passWaits, to2Succeeded, ev, sigs, sigCancels, signals>>

\* case <-clientContext.Done(): the select ends without a cancel call.
ListenerDone ==
  /\ Alive
  /\ listener = "select"
  /\ canceled
  /\ listener' = "stopping"
  /\ UNCHANGED <<config, optv, flagv, pathv, expv, modv, canceled, pc, loopv, waitv, resv,
                 storev, passWaits, to2Succeeded, ev, sigs, notify, sigCancels, signals>>

\* Variant: Execute returns without the deferred cancel().
ExecuteReturn_nocancel ==
  /\ pc = "done"
  /\ pc' = "exec_returned"
  /\ UNCHANGED <<config, optv, flagv, pathv, expv, modv, canceled, loopv, waitv, resv, storev,
                 passWaits, to2Succeeded, ev, sigs, notify, listener, sigCancels, signals>>

\* rootCmd.Execute has returned; Execute returns and its deferred cancel()
\* runs.
ExecuteReturn ==
  /\ pc = "done"
  /\ pc' = "exec_returned"
  /\ canceled' = TRUE
  /\ UNCHANGED <<config, optv, flagv, pathv, expv, modv, loopv, waitv, resv, storev,
                 passWaits, to2Succeeded, ev, sigs, notify, listener, sigCancels, signals>>

SigNext ==
  \/ Signal
  \/ ListenerWake
  \/ ListenerDone
  \/ ListenerStop
  \/ ExecuteReturn
  \/ RunStart
  \/ Discover
  \/ TO1Fail
  \/ TO1Succeed
  \/ TO2Return
  \/ DelayPhase
  \/ WaitReturn
  \/ Finish

\* A goroutine that can run is run.
SpecSignal ==
  /\ SigInit
  /\ [][SigNext]_vars
  /\ WF_vars(ListenerWake)
  /\ WF_vars(ListenerDone)
  /\ WF_vars(ListenerStop)

\* ------------------------------------------------ options and config
\* rootCmd.PersistentPreRunE for a command line and a configuration file.
ArgSets ==
  { [flags |-> f, pos |-> p] :
      f \in [FlagNames -> {Nil, CliValue}], p \in {Nil, CliValue} }

Configs ==
  { [top |-> t, sub |-> u] :
      t \in [ConfigKeys -> {Nil, FileValue}], u \in [ConfigKeys -> {Nil, FileValue}] }

\* Variant: a value of the configuration file is applied to every flag.
syncFlagsFromViper_override(fl, names, vp) ==
  [n \in DOMAIN fl |->
     IF n \in names /\ vp[n] # Nil
     THEN [Changed |-> TRUE, Value |-> vp[n]]
     ELSE fl[n]]

\* syncFlagsFromViper over the flags `names`: a flag not set on the command
\* line takes the value of its key in vp, when that key is set.
syncFlagsFromViper(fl, names, vp) ==
  [n \in DOMAIN fl |->
     IF n \in names /\ ~fl[n].Changed /\ vp[n] # Nil
     THEN [Changed |-> TRUE, Value |-> vp[n]]
     ELSE fl[n]]

ConfigInit ==
  /\ directives = <<>> /\ to2RetryDelay = 0
  /\ canceled = FALSE
  /\ pc = "prerun"
  /\ i = 0 /\ j = 0 /\ k = 0
  /\ ownerURLs = <<>> /\ to1d = NoTo1d
  /\ waitKind = Nil /\ waitBase = 0 /\ waitDur = 0
  /\ runCred = Nil /\ runErr = Nil /\ exitErr = Nil
  /\ store = InitialStore
  /\ credWrites = 0 /\ saveCalls = 0
  /\ passWaits = <<>>
  /\ to2Succeeded = FALSE
  /\ ev = Event("init", Nil)
  /\ ListenerInit
  /\ cmdName \in {"onboard", "device-init"}
  /\ args \in ArgSets
  /\ (cmdName = "onboard") => (args.pos = Nil)
  /\ flags = ParsedFlags(args)
  /\ cfg \in Configs
  /\ diURL = Nil
  /\ FlagInit
  /\ ModInit
  /\ PathInit
  /\ ExpInit

\* PersistentPreRunE: the persistent flags from the top level of the file,
\* then all flags of the command from its section, then the server URL.
PersistentPreRun ==
  /\ pc = "prerun"
  /\ pc' = "run"
  /\ LET fl1 == syncFlagsFromViper(flags, PersistentFlags, cfg.top)
     IN  flags' = syncFlagsFromViper(fl1, FlagNames, cfg.sub)
  /\ diURL' = IF cmdName = "device-init"
              THEN IF args.pos # Nil THEN args.pos
                   ELSE IF cfg.sub["server-url"] # Nil THEN cfg.sub["server-url"]
                   ELSE diURL
              ELSE diURL
  /\ ev' = Event("prerun", cmdName)
  /\ UNCHANGED <<config, sigv, flagv, pathv, expv, modv, canceled, loopv, waitv, resv, storev,
                 passWaits, to2Succeeded, cmdName, args, cfg>>

ConfigNext ==
  \/ PersistentPreRun

SpecConfig == ConfigInit /\ [][ConfigNext]_vars

\* ---------------------------------------------------------- NameToPath
\* A slash-separated path: rooted or not, and its elements in order.  An
\* empty element stands for a doubled or trailing slash.
PathElems == {"a", "b", ".", "..", ""}

Names ==
  { [abs |-> r, parts |-> q] : r \in BOOLEAN, q \in SeqsUpTo(PathElems, MaxElems) }

DirPath(d) ==
  IF d = "/dl" THEN [abs |-> TRUE, parts |-> <<"dl">>]
  ELSE [abs |-> TRUE, parts |-> <<"wget">>]

\* filepath.Clean: empty and "." elements go, ".." removes the element before
\* it, is dropped at the root and kept at the start of a relative path.
RECURSIVE CleanParts(_, _, _)
CleanParts(elems, abs, stack) ==
  IF elems = <<>> THEN stack
  ELSE LET e == Head(elems)
           next == IF e \in {"", "."} THEN stack
                   ELSE IF e = ".."
                        THEN IF stack # <<>> /\ stack[Len(stack)] # ".."
                             THEN SubSeq(stack, 1, Len(stack) - 1)
                             ELSE IF abs THEN stack ELSE Append(stack, "..")
                        ELSE Append(stack, e)
       IN  CleanParts(Tail(elems), abs, next)

Clean(q) == [abs |-> q.abs, parts |-> CleanParts(q.parts, q.abs, <<>>)]

\* filepath.Base of a cleaned path: its last element; "/" for the root and
\* "." for the empty path.
Base(q) ==
  IF q.parts = <<>> THEN (IF q.abs THEN "/" ELSE ".")
  ELSE q.parts[Len(q.parts)]

\* filepath.Join(dir, elem): the cleaned concatenation.
Join(dir, elem) ==
  Clean([abs |-> dir.abs,
         parts |-> dir.parts \o << (IF elem = "/" THEN "" ELSE elem) >>])

\* The NameToPath closure installed for a configured directory.
NameToPath(dir, n) == Join(dir, Base(Clean(n)))

PathSpecInit ==
  /\ directives = <<>> /\ to2RetryDelay = 0
  /\ canceled = FALSE
  /\ pc = "fsim"
  /\ i = 0 /\ j = 0 /\ k = 0
  /\ ownerURLs = <<>> /\ to1d = NoTo1d
  /\ waitKind = Nil /\ waitBase = 0 /\ waitDur = 0
  /\ runCred = Nil /\ runErr = Nil /\ exitErr = Nil
  /\ store = InitialStore
  /\ credWrites = 0 /\ saveCalls = 0
  /\ passWaits = <<>>
  /\ to2Succeeded = FALSE
  /\ ev = Event("init", Nil)
  /\ ListenerInit
  /\ OptInit
  /\ dlDir \in DownloadDirs /\ wgetDir \in WgetDirs
  /\ enableInteropTest = FALSE
  /\ uploadArg = {}
  /\ maxServiceInfoSize = DefaultMTU
  /\ ModInit
  /\ name \in Names
  /\ path = NoPath
  /\ ExpInit

\* fdo.download asks where to store the file the owner calls `name`.
DownloadNameToPath ==
  /\ pc = "fsim"
  /\ dlDir # ""
  /\ path' = NameToPath(DirPath(dlDir), name)
  /\ pc' = "named"
  /\ ev' = Event("name_to_path", "fdo.download")
  /\ UNCHANGED <<config, sigv, optv, flagv, expv, modv, canceled, loopv, waitv, resv,
                 storev, passWaits, to2Succeeded, name>>

\* fdo.wget asks where to store the file the owner calls `name`.
WgetNameToPath ==
  /\ pc = "fsim"
  /\ wgetDir # ""
  /\ path' = NameToPath(DirPath(wgetDir), name)
  /\ pc' = "named"
  /\ ev' = Event("name_to_path", "fdo.wget")
  /\ UNCHANGED <<config, sigv, optv, flagv, expv, modv, canceled, loopv, waitv, resv,
                 storev, passWaits, to2Succeeded, name>>

PathNext ==
  \/ DownloadNameToPath
  \/ WgetNameToPath

SpecPath == PathSpecInit /\ [][PathNext]_vars

\* ---------------------------------------------------- the upload allow-list
\* fsVar, the fs.FS of fdo.upload: Set fills it from --upload, Open is what
\* the module calls with the path the owner asks for.  A path is a record
\* [abs, parts]; the empty string is the relative path without parts.
EmptyPath == [abs |-> FALSE, parts |-> <<>>]
RootPath == [abs |-> TRUE, parts |-> <<>>]

\* The working directory of the process.
Cwd == [abs |-> TRUE, parts |-> <<"w">>]

\* filepath.Abs
Abs(q) == IF q.abs THEN Clean(q) ELSE Clean([abs |-> TRUE, parts |-> Cwd.parts \o q.parts])

\* The leading ".." elements of a cleaned relative path removed.
RECURSIVE StripDots(_)
StripDots(parts) ==
  IF parts # <<>> /\ Head(parts) \in {"..", "."} THEN StripDots(Tail(parts))
  ELSE parts

\* Variant: the name of a path is its last element.
pathToName_base(q, a) ==
  LET b == Base(Clean(q)) IN
  IF b \in {"/", ".", ".."} THEN EmptyPath ELSE [abs |-> FALSE, parts |-> <<b>>]

\* pathToName(path, abs); a = EmptyPath stands for abs == "".
pathToName(q, a) ==
  LET cleaned == Clean(q) IN
  IF q.abs THEN cleaned
  ELSE LET rest == StripDots(cleaned.parts) IN
       IF rest = <<>> /\ a # EmptyPath
       THEN (IF Base(a) = "/" THEN RootPath ELSE [abs |-> FALSE, parts |-> <<Base(a)>>])
       ELSE [abs |-> FALSE, parts |-> rest]

\* fsVar.Set over the paths given, in order: files[pathToName(path, abs)] = abs.
RECURSIVE fsVarSet(_, _)
fsVarSet(files, paths) ==
  IF paths = <<>> THEN files
  ELSE LET q == Head(paths)
           key == pathToName(q, Abs(q))
       IN  fsVarSet({ e \in files : e.name # key } \cup { [name |-> key, abs |-> Abs(q)] },
                    Tail(paths))

\* transferOwnership2: an empty map gets the root entry, uploads["/"] = "".
RootEntry == [name |-> RootPath, abs |-> EmptyPath]
OpenFS(files) == IF files = {} THEN {RootEntry} ELSE files

\* fs.ValidPath: unrooted, no empty, "." or ".." element; "." itself is valid.
ValidPath(q) ==
  /\ ~q.abs
  /\ \/ q.parts = <<".">>
     \/ /\ q.parts # <<>>
        /\ \A m \in 1..Len(q.parts) : q.parts[m] \notin {"", ".", ".."}

HasKey(files, key) == \E e \in files : e.name = key
Lookup(files, key) == (CHOOSE e \in files : e.name = key).abs

\* The loop over filepath.Dir(name), from the parent of name up to, not
\* including, "." or "/": n is the number of elements of dir.
RECURSIVE DirLookup(_, _, _)
DirLookup(files, nm, n) ==
  IF n = 0 THEN [err |-> "not exist", file |-> NoPath]
  ELSE LET dir == [abs |-> nm.abs, parts |-> SubSeq(nm.parts, 1, n)] IN
       IF HasKey(files, dir) THEN [err |-> Nil, file |-> Clean(Lookup(files, dir))]
       ELSE DirLookup(files, nm, n - 1)

\* fsVar.Open: the error it returns, or the file it hands to os.Open.
fsVarOpen(files, q) ==
  IF ~ValidPath(q) THEN [err |-> "invalid", file |-> NoPath]
  ELSE IF HasKey(files, RootPath) THEN [err |-> Nil, file |-> Clean(q)]
  ELSE LET nm == pathToName(q, EmptyPath) IN
       IF HasKey(files, nm) THEN [err |-> Nil, file |-> Clean(Lookup(files, nm))]
       ELSE IF nm.parts = <<>> THEN [err |-> "not exist", file |-> NoPath]
       ELSE DirLookup(files, nm, Len(nm.parts) - 1)

\* The paths given with --upload.
UploadPaths ==
  { [abs |-> TRUE, parts |-> <<"a">>],
    [abs |-> FALSE, parts |-> <<"a">>],
    [abs |-> FALSE, parts |-> <<"..", "b">>],
    [abs |-> FALSE, parts |-> <<"a", "b">>],
    RootPath }

UploadLists ==
  { <<>> } \cup { <<q>> : q \in UploadPaths }
           \cup { <<q, r>> : q \in UploadPaths, r \in UploadPaths }

OpenInit ==
  /\ directives = <<>> /\ to2RetryDelay = 0
  /\ canceled = FALSE
  /\ pc = "fsim"
  /\ i = 0 /\ j = 0 /\ k = 0
  /\ ownerURLs = <<>> /\ to1d = NoTo1d
  /\ waitKind = Nil /\ waitBase = 0 /\ waitDur = 0
  /\ runCred = Nil /\ runErr = Nil /\ exitErr = Nil
  /\ store = InitialStore
  /\ credWrites = 0 /\ saveCalls = 0
  /\ passWaits = <<>>
  /\ to2Succeeded = FALSE
  /\ ev = Event("init", Nil)
  /\ ListenerInit
  /\ OptInit
  /\ dlDir = "" /\ wgetDir = ""
  /\ enableInteropTest = FALSE
  /\ uploadArg \in UploadLists
  /\ maxServiceInfoSize = DefaultMTU
  /\ uploads = OpenFS(fsVarSet({}, uploadArg))
  /\ fsims = NoFsims
  /\ MaxServiceInfoSizeReceive = 0
  /\ name \in Names
  /\ path = NoPath
  /\ ExpInit

\* fdo.upload opens the file the owner asks for.
UploadOpen ==
  /\ pc = "fsim"
  /\ LET r == fsVarOpen(uploads, name) IN
     /\ path' = r.file
     /\ ev' = Event("open", IF r.err = Nil THEN "granted" ELSE r.err)
  /\ pc' = "opened"
  /\ UNCHANGED <<config, sigv, optv, flagv, expv, modv, canceled, loopv, waitv, resv,
                 storev, passWaits, to2Succeeded, name>>

OpenNext == UploadOpen

SpecOpen == OpenInit /\ [][OpenNext]_vars

\* ------------------------------------------- getOwnerURLs, entry by entry
\* The loop of getOwnerURLs over the address entries of one TO1 response,
\* one entry a step.
\* The address entries expanded here: those of AddrEntries, an HTTPS entry
\* without port and an HTTP entry with one.
ExpandEntries ==
  AddrEntries \cup
  { [DNSAddress |-> Nil, IPAddress |-> "10.0.0.2", IPValid |-> TRUE,
     TransportProtocol |-> HTTPSTransport, Port |-> 0],
    [DNSAddress |-> "owner.example", IPAddress |-> Nil, IPValid |-> FALSE,
     TransportProtocol |-> HTTPTransport, Port |-> 8080] }

ExpandInit ==
  /\ directives = <<>> /\ to2RetryDelay = 0
  /\ canceled = FALSE
  /\ pc = "expand"
  /\ i = 0 /\ j = 0 /\ k = 0
  /\ ownerURLs = <<>> /\ to1d = NoTo1d
  /\ waitKind = Nil /\ waitBase = 0 /\ waitDur = 0
  /\ runCred = Nil /\ runErr = Nil /\ exitErr = Nil
  /\ store = InitialStore
  /\ credWrites = 0 /\ saveCalls = 0
  /\ passWaits = <<>>
  /\ to2Succeeded = FALSE
  /\ ev = Event("init", Nil)
  /\ ListenerInit
  /\ OptInit
  /\ FlagInit
  /\ ModInit
  /\ PathInit
  /\ rvAddrs \in SeqsUpTo(ExpandEntries, MaxRV)
  /\ addrIdx = 1
  /\ resolved = FALSE

\* Which branch of the loop body an entry takes.
EntryKind(a) ==
  IF a.DNSAddress = Nil /\ a.IPAddress = Nil THEN "both_null"
  ELSE IF a.TransportProtocol \notin {HTTPTransport, HTTPSTransport}
       THEN "unsupported_transport"
       ELSE "expanded"

\* Variant: an entry that is skipped ends the loop.
ExpandEntry_abort ==
  /\ pc = "expand"
  /\ addrIdx <= Len(rvAddrs)
  /\ LET a == rvAddrs[addrIdx]
         lookup == EntryKind(a) = "expanded" /\ a.DNSAddress # Nil
     IN  /\ \E r \in (IF lookup THEN BOOLEAN ELSE {FALSE}) :
              /\ resolved' = r
              /\ ownerURLs' = ownerURLs \o AddrURLs(a, r)
         /\ ev' = Event("entry", EntryKind(a))
         /\ pc' = (IF EntryKind(a) = "expanded" THEN "expand" ELSE "expanded")
  /\ addrIdx' = addrIdx + 1
  /\ UNCHANGED <<config, sigv, optv, flagv, pathv, modv, canceled, i, j, k, to1d,
                 waitv, resv, storev, passWaits, to2Succeeded, rvAddrs>>

\* One pass of the loop body: the entry is skipped, or its DNS name is looked
\* up and its URLs are appended.
ExpandEntry ==
  /\ pc = "expand"
  /\ addrIdx <= Len(rvAddrs)
  /\ LET a == rvAddrs[addrIdx]
         lookup == EntryKind(a) = "expanded" /\ a.DNSAddress # Nil
     IN  /\ \E r \in (IF lookup THEN BOOLEAN ELSE {FALSE}) :
              /\ resolved' = r
              /\ ownerURLs' = ownerURLs \o AddrURLs(a, r)
         /\ ev' = Event("entry", EntryKind(a))
  /\ addrIdx' = addrIdx + 1
  /\ UNCHANGED <<config, sigv, optv, flagv, pathv, modv, canceled, pc, i, j, k, to1d,
                 waitv, resv, storev, passWaits, to2Succeeded, rvAddrs>>

\* The loop is over: getOwnerURLs returns ownerURLs, empty or not.
ExpandDone ==
  /\ pc = "expand"
  /\ addrIdx > Len(rvAddrs)
  /\ pc' = "expanded"
  /\ ev' = Event("expansion_done", IF ownerURLs = <<>> THEN "empty" ELSE "urls")
  /\ UNCHANGED <<config, auxv, modv, canceled, loopv, waitv, resv, storev,
                 passWaits, to2Succeeded>>

ExpandNext ==
  \/ ExpandEntry
  \/ ExpandDone

SpecExpand == ExpandInit /\ [][ExpandNext]_vars

\* ------------------------------------------- addJitter / applyDelay alone
\* One jittered wait on its own: addJitter on a base delay with any value
\* 0.25*(2*rand.Float64()-1) can take (in 1/10000), then applyDelay on the
\* result.
AllJitterDraws == -2500..2499

JitterBases == (0..MaxBase) \cup {DirDelay, DefaultDelay}

JitterInit ==
  /\ directives = <<>> /\ to2RetryDelay = 0
  /\ canceled = FALSE
  /\ pc = "jitter"
  /\ i = 0 /\ j = 0 /\ k = 0
  /\ ownerURLs = <<>> /\ to1d = NoTo1d
  /\ waitKind = "directive" /\ waitBase \in JitterBases /\ waitDur = 0
  /\ runCred = Nil /\ runErr = Nil /\ exitErr = Nil
  /\ store = InitialStore
  /\ credWrites = 0 /\ saveCalls = 0
  /\ passWaits = <<>>
  /\ to2Succeeded = FALSE
  /\ ev = Event("init", Nil)
  /\ ListenerInit
  /\ OptInit
  /\ FlagInit
  /\ ModInit
  /\ PathInit
  /\ ExpInit

\* delay := addJitter(base)
JitterCompute ==
  /\ pc = "jitter"
  /\ \E draw \in AllJitterDraws : waitDur' = addJitter(waitBase, draw)
  /\ pc' = "jwait"
  /\ ev' = Event("delay", IF canceled THEN "ctx_done" ELSE waitKind)
  /\ UNCHANGED <<config, auxv, modv, canceled, loopv, waitKind, waitBase, resv, storev,
                 passWaits, to2Succeeded>>

\* applyDelay(ctx, delay) returns.  With a delay of 0 the timer channel may
\* be ready together with ctx.Done(), and select then takes either case.
JitterWait ==
  /\ pc = "jwait"
  /\ pc' = "jdone"
  /\ runErr' \in IF canceled /\ waitDur <= 0 THEN {ErrCanceled, Nil}
                 ELSE {applyDelay(canceled)}
  /\ ev' = Event(IF runErr' # Nil THEN "wait_canceled" ELSE "wait_elapsed",
                 IF ev.arg = "ctx_done" THEN "ctx_done" ELSE waitKind)
  /\ UNCHANGED <<config, auxv, modv, canceled, loopv, waitv, runCred, exitErr, storev,
                 passWaits, to2Succeeded>>

\* The context is canceled, before applyDelay is called or during the wait.
JitterCancel ==
  /\ ~canceled /\ pc \in {"jitter", "jwait"}
  /\ canceled' = TRUE
  /\ UNCHANGED <<config, auxv, modv, pc, loopv, waitv, resv, storev, passWaits, to2Succeeded,
                 ev>>

JitterNext ==
  \/ JitterCompute
  \/ JitterWait
  \/ JitterCancel

SpecJitter == JitterInit /\ [][JitterNext]_vars

TypeOK ==
  /\ pc \in {"start", "discover", "to1", "to2", "delay", "wait", "returned", "done"}
  /\ canceled \in BOOLEAN
  /\ InLoop => i \in 1..Len(directives)
  /\ pc = "to2" => j \in 1..Len(ownerURLs)
  /\ pc = "to1" => k \in 1..Len(directives[i].URLs)


\* ---------------------------------------------------------------- claims

Returned == pc \in {"returned", "done"}

\* C1: as soon as a TO2 attempt returns a non-nil credential, Run has
\* returned that credential with a nil error; the command is never again at
\* a TO1 call, a TO2 call or a wait, whatever the position of the successful
\* owner URL and whatever the pass.
C1_SuccessShortCircuits ==
  to2Succeeded => /\ Returned
                  /\ runCred = "dcNew"
                  /\ runErr = Nil

\* C1 witness: success on the second owner URL of the last of two
\* directives; Run has returned.
C1_Witness ==
  /\ to2Succeeded /\ pc = "returned"
  /\ ev = Event("to2_returned", "credential")
  /\ Len(directives) = 2 /\ i = 2 /\ j = 2

\* A step in which an fdo.TO2 call returns (nil, nil).
C2_ReuseStep ==
  (pc = "to2" /\ canceled' = canceled /\ ev' = Event("to2_returned", "reuse"))
    => (pc' = "returned" /\ runCred' = Nil /\ runErr' = Nil)

\* C2 (as claimed): when a TO2 attempt reports credential reuse (nil
\* credential, nil error), Run returns nil, nil in that step, with no further
\* owner URL, directive or wait.
C2_ReuseShortCircuits == [][C2_ReuseStep]_vars

\* C3: the only errors Run returns are the empty-directive-list error, before
\* the loop has started, and the context's cancellation error; TO1 and TO2
\* failures and dropped addresses never surface.
C3_OnlyConfigOrCancelErrors ==
  Returned =>
    /\ runErr \in {Nil, ErrNoRvInfo, ErrCanceled}
    /\ runErr = ErrNoRvInfo => (Len(directives) = 0 /\ i = 0)
    /\ runErr = ErrCanceled => (canceled /\ Len(directives) > 0)

\* C3 witness: in a TO1 directive a TO2 attempt on the first owner URL did
\* not succeed, and Run returned the cancellation error out of the retry
\* wait that followed it.
C3_Witness ==
  /\ pc = "returned" /\ runErr = ErrCanceled /\ runCred = Nil
  /\ ~directives[i].Bypass /\ j = 1
  /\ ev = Event("wait_canceled", "retry")

\* C4: with a non-empty directive list, Run returns only if the context was
\* canceled or a TO2 attempt produced a credential; and when the wait after
\* the last directive elapses, the loop starts again at the first directive
\* with the same directive list.
C4_ReturnNeedsCancelOrSuccess ==
  (Returned /\ Len(directives) > 0) => (canceled \/ to2Succeeded)

C4_WrapStep ==
  (pc = "wait" /\ waitKind # "retry" /\ i = Len(directives) /\ pc' # "wait" /\ ~canceled)
    => (pc' = "discover" /\ i' = 1 /\ directives' = directives)

C4_LoopsForever == []C4_ReturnNeedsCancelOrSuccess /\ [][C4_WrapStep]_vars

\* C4 witness: the wait after the last of two directives has elapsed and the
\* loop is at the first directive again; nothing has succeeded and nothing
\* was canceled.
C4_Witness ==
  /\ pc = "discover" /\ i = 1 /\ Len(directives) = 2
  /\ ev = Event("wait_elapsed", "default")
  /\ ~canceled /\ ~to2Succeeded

\* C5: once the context is canceled while Run is in a wait (retry, directive
\* or default), Run leaves that wait only by returning the cancellation error
\* with a nil credential; and after Run has returned, no TO1 call, TO2 call or
\* wait follows.
C5_WaitStep ==
  /\ (pc = "wait" /\ canceled /\ pc' # "wait")
       => (pc' = "returned" /\ runErr' = ErrCanceled /\ runCred' = Nil)
  /\ Returned => (pc' \in {"returned", "done"})

C5_CancelInWaitReturns == [][C5_WaitStep]_vars

\* C5 witness: the fixed TO2 retry delay between two owner URLs of a bypass
\* directive was cut short by the cancellation and Run has returned.
C5_Witness ==
  /\ canceled /\ pc = "returned" /\ runErr = ErrCanceled
  /\ ev = Event("wait_canceled", "retry")
  /\ directives[i].Bypass /\ j = 1

\* A step in which the command begins a TO1 or TO2 call.
BeginsCall ==
  /\ pc' \in {"to1", "to2"}
  /\ <<pc', i', j', k'>> # <<pc, i, j, k>>

\* C6 (as claimed, the case it singles out): once the context has been
\* canceled, a TO1 or TO2 call that returns a failure is not followed by a new
\* TO1 or TO2 call: Run does not go on to the remaining RV URLs, owner URLs
\* or directives.
C6_NoNewCallStep ==
  ( /\ canceled /\ pc \in {"to1", "to2"}
    /\ ev' \in {Event("to1_failed", Nil), Event("to2_returned", "error")} )
  => ~BeginsCall

C6_NoNewCallAfterCancel == [][C6_NoNewCallStep]_vars

\* C7: with an empty directive list Run returns the configuration error at
\* once: the loop is never entered (no TO1, no TO2, no wait, no retry) and
\* nothing is written.
C7_EmptyListFailsAtOnce ==
  (Len(directives) = 0 /\ pc # "start") =>
    /\ Returned
    /\ runErr = ErrNoRvInfo /\ runCred = Nil
    /\ i = 0 /\ passWaits = <<>>
    /\ ev.op \in {"config_error", "exit"}
    /\ pc = "done" => (exitErr = ErrNoRvInfo /\ saveCalls = 0 /\ store = InitialStore)

\* C7 witness: the command has ended with the configuration error.
C7_Witness ==
  /\ Len(directives) = 0 /\ pc = "done"
  /\ exitErr = ErrNoRvInfo /\ ev = Event("exit", Nil)

\* C8 (as claimed): the persisted credential is written exactly once if Run
\* returns a new credential and zero times otherwise, never while the loop
\* is iterating.
C8_WrittenOnceIffCredential ==
  /\ pc = "done" => credWrites = (IF runCred # Nil THEN 1 ELSE 0)
  /\ pc # "done" => (credWrites = 0 /\ store = InitialStore)

\* C8 (amended): updateCred is called exactly once, after Run has returned,
\* if Run returned a new credential, and never otherwise; that call persists
\* the new credential with state Idle if its read and its save succeed and
\* persists no credential if either fails; the store is never touched before
\* Run has returned.
C8_SaveOnceAfterRun ==
  /\ pc = "done" => saveCalls = (IF runCred # Nil /\ runErr = Nil THEN 1 ELSE 0)
  /\ pc # "done" => (saveCalls = 0 /\ credWrites = 0 /\ store = InitialStore)
  /\ credWrites <= saveCalls
  /\ credWrites = 1 <=> (pc = "done" /\ ev = Event("update_cred", "written"))
  /\ credWrites = 1 =>
       store = [InitialStore EXCEPT !.DC = runCred, !.State = FDO_STATE_IDLE]
  /\ (pc = "done" /\ credWrites = 0 /\ store # InitialStore) =>
       (saveCalls = 1 /\ store.DC = Nil)

\* C8 witness: the new credential has been stored with state Idle.
C8_Witness ==
  /\ pc = "done" /\ credWrites = 1 /\ saveCalls = 1
  /\ store.DC = "dcNew" /\ store.State = FDO_STATE_IDLE
  /\ exitErr = Nil

\* The claim's precondition: the last directive has no delay, all others do.
OnlyLastHasNoDelay ==
  /\ Len(directives) > 0
  /\ \A n \in 1..Len(directives) : (directives[n].Delay = 0) <=> (n = Len(directives))

Jittered(dur, base) == 3 * base <= 4 * dur /\ 4 * dur <= 5 * base

\* A pass over the directive list has just been completed: the wait after
\* the last directive elapsed and the loop is back at the first directive.
PassCompleted == pc = "discover" /\ i = 1 /\ ev.op = "wait_elapsed"

\* C9: a default-delay wait begins exactly when the delay phase of the last
\* directive finds its configured delay zero, and it is a jittered 120 s; in
\* a list whose last directive alone has no delay, a completed pass holds
\* exactly one default wait, after the last directive, and one wait on its
\* own delay for every other directive.
C9_DefaultStep ==
  /\ (pc' = "wait" /\ pc # "wait" /\ waitKind' = "default")
       <=> (pc = "delay" /\ pc' # "delay"
            /\ i = Len(directives) /\ directives[i].Delay = 0)
  /\ (pc' = "wait" /\ pc # "wait" /\ waitKind' = "default")
       => (waitBase' = DefaultDelay /\ Jittered(waitDur', DefaultDelay) /\ i' = i)

C9_PassWaits ==
  (PassCompleted /\ OnlyLastHasNoDelay) =>
     passWaits =
       [n \in 1..Len(directives) |->
          IF n = Len(directives)
          THEN [idx |-> n, kind |-> "default", base |-> DefaultDelay]
          ELSE [idx |-> n, kind |-> "directive", base |-> directives[n].Delay]]

C9_DefaultOnlyAfterLast == []C9_PassWaits /\ [][C9_DefaultStep]_vars

\* C9 witness: a pass over two directives has completed with one wait on the
\* first directive's own delay and one default wait after the second.
C9_Witness ==
  /\ PassCompleted /\ OnlyLastHasNoDelay /\ Len(directives) = 2
  /\ Len(passWaits) = 2
  /\ passWaits[1].kind = "directive" /\ passWaits[2].kind = "default"

\* C10 (as claimed): for a directive with a nonzero delay, every visit that
\* does not end in success is followed by a jittered wait on that delay; so
\* when Run returns without a credential during such a visit, it returns out
\* of that wait.
C10_EveryVisitWaits ==
  (pc = "returned" /\ runCred = Nil /\ i > 0 /\ directives[i].Delay # 0)
    => ev = Event("wait_canceled", "directive")

\* C10 (amended): for a directive with a nonzero delay, every visit whose
\* owner-URL attempts are exhausted without success (or that had none) is
\* followed by exactly one jittered wait on that delay, never the default,
\* last directive or not; the loop leaves such a directive only out of that
\* wait, and Run returns without a credential during such a visit only by
\* cancellation of that wait or of a TO2 retry wait.
C10_DelayStep ==
  /\ (pc = "delay" /\ pc' # "delay" /\ directives[i].Delay # 0)
       => /\ pc' = "wait" /\ i' = i
          /\ waitKind' = "directive" /\ waitBase' = directives[i].Delay
          /\ Jittered(waitDur', directives[i].Delay)
  /\ (pc = "wait" /\ waitKind = "directive" /\ pc' # "wait")
       => pc' \in {"discover", "returned"}
  /\ (pc' = "discover" /\ pc \notin {"discover", "start"} /\ directives[i].Delay # 0)
       => (pc = "wait" /\ waitKind = "directive" /\ waitBase = directives[i].Delay)
  /\ (pc' = "delay" /\ pc # "delay") => pc \in {"discover", "to1", "to2"}

C10_ReturnsOnlyByCancel ==
  (pc = "returned" /\ runCred = Nil /\ i > 0 /\ directives[i].Delay # 0)
    => ev \in {Event("wait_canceled", "directive"), Event("wait_canceled", "retry")}

C10_OwnDelayAfterExhaustedVisit == []C10_ReturnsOnlyByCancel /\ [][C10_DelayStep]_vars

\* C10 witness: the last directive has a delay of its own, discovery gave no
\* owner URL, and the command waits on that delay.
C10_Witness ==
  /\ pc = "wait" /\ waitKind = "directive"
  /\ i = Len(directives) /\ i = 2
  /\ ev = Event("delay", "directive")
  /\ ~directives[i].Bypass /\ directives[i].URLs = <<>>
  /\ waitBase = DirDelay

\* C11: for a directive that is not the last and has no delay, nothing waits
\* between the end of its owner-URL attempts and the discovery of the next
\* directive: the delay phase goes straight on to directive i+1, no
\* directive-level wait is ever in progress for such a directive, and a TO2
\* retry wait is only ever in progress before a further owner URL.
C11_NoWaitState ==
  /\ (pc = "wait" /\ waitKind # "retry")
       => (directives[i].Delay # 0 \/ i = Len(directives))
  /\ (pc = "wait" /\ waitKind = "retry") => j < Len(ownerURLs)

C11_NoWaitStep ==
  (pc = "delay" /\ pc' # "delay" /\ i < Len(directives) /\ directives[i].Delay = 0)
    => /\ pc' = "discover" /\ i' = i + 1
       /\ <<waitKind', waitBase', waitDur'>> = <<Nil, 0, 0>>
       /\ passWaits' = passWaits

C11_NonLastZeroDelayNoWait == []C11_NoWaitState /\ [][C11_NoWaitStep]_vars

\* C11 witness: every TO2 attempt of the first directive, which has no delay,
\* failed, and discovery of the second directive is about to start without
\* any directive-level wait in this pass.
C11_Witness ==
  /\ pc = "discover" /\ i = 2 /\ ev = Event("no_delay", Nil)
  /\ directives[1].Delay = 0 /\ Len(directives[1].URLs) = 2 /\ directives[1].Bypass
  /\ passWaits = <<>>

\* C12: in a visit of a bypass directive no TO1 call is made; discovery hands
\* over the directive's URL list, same URLs in the same order, as the owner
\* URLs together with a nil TO1 redirect, so every TO2 attempt of the visit is
\* made with a nil redirect.
C12_BypassState ==
  (InLoop /\ directives[i].Bypass) =>
    /\ pc # "to1" /\ k = 0
    /\ ev.op \notin {"to1_loop", "to1_failed", "to1_succeeded"}
    /\ to1d = NoTo1d
    /\ (pc = "to2" \/ (pc = "wait" /\ waitKind = "retry"))
         => (ownerURLs = directives[i].URLs /\ j \in 1..Len(ownerURLs))

C12_BypassStep ==
  (pc = "discover" /\ directives[i].Bypass /\ pc' # "discover") =>
    /\ ev' = Event("bypass", Nil) /\ to1d' = NoTo1d /\ i' = i
    /\ IF directives[i].URLs = <<>>
       THEN pc' = "delay"
       ELSE pc' = "to2" /\ j' = 1 /\ ownerURLs' = directives[i].URLs

C12_BypassSkipsTO1 == []C12_BypassState /\ [][C12_BypassStep]_vars

\* C12 witness: TO2 is being attempted on the second URL of a bypass
\* directive, with a nil redirect.
C12_Witness ==
  /\ pc = "to2" /\ directives[i].Bypass /\ j = 2
  /\ ownerURLs = <<URLPool[1], URLPool[2]>> /\ to1d = NoTo1d

\* C13: in a visit of a non-bypass directive TO1 is called on the RV URLs in
\* list order, starting at the first; a TO1 failure only moves on to the next
\* RV URL (or, after the last one, ends discovery); a TO1 success ends the
\* loop over the RV URLs, and no TO1 call is made in that visit once a TO1
\* response is held.
C13_TO1State ==
  pc = "to1" =>
    /\ ~directives[i].Bypass /\ k \in 1..Len(directives[i].URLs)
    /\ to1d = NoTo1d /\ ownerURLs = <<>>
    /\ ev = (IF k = 1 THEN Event("to1_loop", Nil) ELSE Event("to1_failed", Nil))

C13_TO1Step ==
  /\ (pc' = "to1" /\ pc # "to1") => (pc = "discover" /\ k' = 1 /\ i' = i)
  /\ (pc = "to1" /\ canceled' = canceled /\ ev' = Event("to1_failed", Nil)) =>
       /\ i' = i
       /\ IF k < Len(directives[i].URLs)
          THEN pc' = "to1" /\ k' = k + 1
          ELSE pc' = "delay"
  /\ (pc = "to1" /\ ev'.op = "to1_succeeded") =>
       /\ ev'.arg = RVName[k] /\ i' = i
       /\ pc' \in {"to2", "delay"}
  /\ (pc = "to1" /\ pc' = "to1" /\ k' # k) =>
       (k' = k + 1 /\ ev' = Event("to1_failed", Nil))

C13_TO1InOrderUntilSuccess == []C13_TO1State /\ [][C13_TO1Step]_vars

\* C13 witness: TO1 succeeded on the first of two RV URLs and the visit has
\* gone on to TO2; the second RV URL was not contacted.
C13_Witness ==
  /\ pc = "to2" /\ j = 1 /\ ev = Event("to1_succeeded", "rv1")
  /\ ~directives[i].Bypass /\ Len(directives[i].URLs) = 2
  /\ to1d # NoTo1d

\* C14: when discovery yields no owner URL (the directive has no URL, every
\* TO1 attempt failed, or TO1 succeeded without a usable owner address) the
\* visit makes no TO2 call and raises no error, and goes directly to the
\* directive's delay phase: its own delay, the default delay if it is the
\* last directive, or none.
C14_TO2NeedsURL ==
  /\ pc = "to2" => (Len(ownerURLs) > 0 /\ j \in 1..Len(ownerURLs))
  /\ pc = "delay" => (runErr = Nil /\ runCred = Nil /\ ownerURLs = <<>>)

C14_EmptyStep ==
  /\ ( /\ pc \in {"discover", "to1"} /\ canceled' = canceled
       /\ ownerURLs' = <<>> /\ pc' # "to1" /\ <<pc', k'>> # <<pc, k>> )
       => (pc' = "delay" /\ i' = i /\ runErr' = Nil /\ runCred' = Nil)
  /\ (pc' = "to2" /\ pc # "to2")
       => (pc \in {"discover", "to1", "wait"} /\ Len(ownerURLs') > 0)
  /\ (pc = "delay" /\ pc' # "delay")
       => /\ pc' \in {"wait", "discover"}
          /\ runErr' = Nil
          /\ pc' = "wait" <=> (directives[i].Delay # 0 \/ i = Len(directives))
          /\ pc' = "wait" =>
               waitBase' = (IF directives[i].Delay # 0 THEN directives[i].Delay
                            ELSE DefaultDelay)

C14_EmptyDiscoverySkipsTO2 == []C14_TO2NeedsURL /\ [][C14_EmptyStep]_vars

\* C14 witness: TO1 failed on the first RV URL and succeeded on the second
\* without a usable owner address; the visit is at its delay phase.
C14_Witness ==
  /\ pc = "delay" /\ ev = Event("to1_succeeded", "rv2")
  /\ ownerURLs = <<>> /\ runErr = Nil /\ ~canceled

\* C15: within a visit, a TO2 attempt that does not succeed is followed by a
\* wait of exactly to2RetryDelay, not jittered, if and only if its owner URL
\* is not the last one and to2RetryDelay > 0; after that wait the next owner
\* URL is attempted.  Otherwise the next owner URL (or, after the last one,
\* the delay phase) follows at once; a successful attempt is followed by no
\* wait.  So n failing owner URLs are separated by n-1 such waits, or by none
\* when to2RetryDelay is 0.
C15_RetryWaitState ==
  (pc = "wait" /\ waitKind = "retry") =>
    /\ to2RetryDelay > 0 /\ j \in 1..(Len(ownerURLs) - 1)
    /\ waitDur = to2RetryDelay /\ waitBase = to2RetryDelay
    /\ ev.op = "to2_returned" /\ ev.arg # "credential"

C15_RetryWaitStep ==
  /\ (pc = "to2" /\ canceled' = canceled /\ ev'.op = "to2_returned") =>
       IF ev'.arg = "credential" THEN pc' = "returned"
       ELSE IF j < Len(ownerURLs) /\ to2RetryDelay > 0
            THEN /\ pc' = "wait" /\ waitKind' = "retry" /\ j' = j
                 /\ waitDur' = to2RetryDelay
       ELSE IF j < Len(ownerURLs)
            THEN pc' = "to2" /\ j' = j + 1 /\ waitKind' = Nil
       ELSE pc' = "delay" /\ waitKind' = Nil
  /\ (pc = "wait" /\ waitKind = "retry" /\ pc' # "wait") =>
       \/ pc' = "to2" /\ j' = j + 1 /\ i' = i /\ ownerURLs' = ownerURLs
       \/ pc' = "returned" /\ canceled
  /\ (pc' = "wait" /\ waitKind' = "retry" /\ pc # "wait") => pc = "to2"
  /\ (pc = "to2" /\ pc' = "to2" /\ j' # j) => to2RetryDelay = 0

C15_RetryWaitBetweenURLs == []C15_RetryWaitState /\ [][C15_RetryWaitStep]_vars

\* C15 witness: the 3 s retry wait after the failed first owner URL has
\* elapsed and TO2 is being attempted on the second, last, owner URL.
C15_Witness ==
  /\ pc = "to2" /\ j = 2 /\ Len(ownerURLs) = 2
  /\ to2RetryDelay = 3000 /\ ev = Event("wait_elapsed", "retry")

\* C16: for every base delay d > 0 and every jitter draw, the delay
\* addJitter computes lies in [0.75*d, 1.25*d]; for d = 0 it is exactly 0
\* whatever the draw, so a wait on it lasts no time.
C16_JitterBounds ==
  pc \in {"jwait", "jdone"} =>
    /\ waitBase > 0 => Jittered(waitDur, waitBase)
    /\ waitBase = 0 => waitDur = 0

\* C16 witness: a wait on the 120 s default with the largest downward jitter
\* (90 s) has elapsed.
C16_Witness ==
  /\ pc = "jdone" /\ waitBase = DefaultDelay /\ waitDur = 90000
  /\ ev = Event("wait_elapsed", "directive")

\* The hosts a TO1 response offers, flattened in entry order with the DNS
\* address of an entry before its IP address, each with whether discovery
\* can use it.
Candidates(rv, res) ==
  [n \in 1..(2 * Len(rv)) |->
     LET a == rv[(n + 1) \div 2]
         supported == a.TransportProtocol \in {HTTPTransport, HTTPSTransport}
     IN  IF n % 2 = 1
         THEN [host |-> a.DNSAddress,
               ok |-> supported /\ a.DNSAddress # Nil /\ res[(n + 1) \div 2]]
         ELSE [host |-> a.IPAddress,
               ok |-> supported /\ a.IPAddress # Nil /\ a.IPValid]]

IsUsable(c) == c.ok

HostsOf(seq) == [n \in 1..Len(seq) |-> seq[n].host]

\* The owner URLs of every TO1 response are its usable candidates, in the
\* candidates' order.
C17_ExpansionOrder ==
  \A rv \in To1Responses, res \in [1..MaxAddrs -> BOOLEAN] :
    HostsOf(ExpandAddrs(rv, res, Len(rv))) = HostsOf(SelectSeq(Candidates(rv, res), IsUsable))

C17_OrderState ==
  /\ C17_ExpansionOrder
  /\ (pc = "to2" /\ to1d # NoTo1d) => ownerURLs \in To1Expansions

C17_OrderStep ==
  /\ i' # i =>
       \/ pc = "start" /\ i' = 1
       \/ /\ pc = "delay" \/ (pc = "wait" /\ waitKind # "retry")
          /\ pc' = "discover"
          /\ i' = (IF i < Len(directives) THEN i + 1 ELSE 1)
  /\ (pc' = "discover" /\ pc \notin {"discover", "start"}) =>
       (pc = "delay" \/ (pc = "wait" /\ waitKind # "retry"))
  /\ (pc' = "to2" /\ <<pc', j'>> # <<pc, j>>) =>
       \/ pc \in {"discover", "to1"} /\ j' = 1 /\ i' = i
       \/ /\ pc = "to2" \/ (pc = "wait" /\ waitKind = "retry")
          /\ j' = j + 1 /\ ownerURLs' = ownerURLs /\ to1d' = to1d /\ i' = i
  /\ (pc = "to2" /\ pc' = "delay") => j = Len(ownerURLs)
  /\ directives' = directives

OnboardRan == pc = "cmd" /\ ev'.op \in {"onboard_plain", "onboard_resale"}

DeviceInitRan == pc = "cmd" /\ ev'.op = "device_init"

LoadedState == loadDeviceStatus(store, TRUE).state

C18_DispatchStep ==
  (OnboardRan /\ ev'.arg \notin {"load_failed", "validation_error"}) =>
    LET resale == ev'.op = "onboard_resale" IN
    /\ (pc' = "start") <=>
         (LoadedState = FDO_STATE_PRE_TO1 \/ (LoadedState = FDO_STATE_IDLE /\ resale))
    /\ (LoadedState = FDO_STATE_IDLE /\ ~resale) =>
         (pc' = "done" /\ exitErr' = Nil /\ ev'.arg = "already_onboarded")
    /\ (LoadedState \notin {FDO_STATE_PRE_DI, FDO_STATE_PRE_TO1, FDO_STATE_IDLE}) =>
         (pc' = "done" /\ exitErr' = ErrState /\ ev'.arg = "invalid_state")
    /\ (pc' = "done") =>
         (store' = store /\ credWrites' = credWrites /\ saveCalls' = saveCalls)

\* The loop is entered by the dispatch only, and an invocation that was not
\* dispatched to the loop exits without another step.
C18_LoopStep ==
  /\ (pc # "start" /\ pc' = "start") => (OnboardRan /\ ev'.arg = "onboard")
  /\ (pc = "done" /\ ev.op \in {"onboard_plain", "onboard_resale"}) =>
       (pc' = "cmd" /\ store' = store)

\* C18: the onboard command runs the ownership-transfer loop iff the loaded
\* state is PreTO1, or Idle with resale requested; with Idle and no resale it
\* reports already-onboarded and returns success, and for every state value
\* other than PreDI, PreTO1 and Idle it returns an error; in both cases
\* without a TO1/TO2 call or a credential write.
C18_OnboardDispatch == [][C18_DispatchStep /\ C18_LoopStep]_vars

C18_Witness ==
  /\ pc = "start" /\ ev = Event("onboard_resale", "onboard")
  /\ store.nv = "data" /\ store.State = FDO_STATE_IDLE

\* ---------------------------------------------------------------- C19
C19_AnyCommandStep ==
  ((OnboardRan \/ DeviceInitRan) /\ ev'.arg \notin {"load_failed", "validation_error"}
     /\ LoadedState = FDO_STATE_PRE_DI) =>
    ev' = Event("device_init", "di")

\* C19 as stated: whenever the loaded device state is PreDI, the action
\* selected is to run the DI flow, whichever command loaded the state.
C19_PreDIRunsDI == [][C19_AnyCommandStep]_vars

C19_PerCommandStep ==
  /\ (DeviceInitRan /\ ev'.arg \notin {"load_failed", "validation_error"} /\ LoadedState = FDO_STATE_PRE_DI) =>
       /\ ev'.arg = "di" /\ pc' = "done"
       /\ \/ store' = DIRecord /\ exitErr' = Nil
          \/ store' = store /\ exitErr' # Nil
          \/ store'.nv \in {"undefined", "blank"} /\ exitErr' # Nil
  /\ (OnboardRan /\ ev'.arg \notin {"load_failed", "validation_error"} /\ LoadedState = FDO_STATE_PRE_DI) =>
       /\ ev'.arg = "need_di" /\ pc' = "done"
       /\ exitErr' = ErrState /\ store' = store
  /\ (pc = "cmd" /\ ev'.arg = "di") =>
       (DeviceInitRan /\ LoadedState = FDO_STATE_PRE_DI)

\* C19 (amended): with loaded state PreDI the device-init command runs the DI
\* flow (and only with that state); the onboard command runs no flow, it
\* returns an error asking for device-init and leaves the store alone.
C19_PreDIPerCommand == [][C19_PerCommandStep]_vars

C19_Witness ==
  /\ pc = "done" /\ ev = Event("device_init", "di")
  /\ store = DIRecord /\ exitErr = Nil

\* ---------------------------------------------------------------- C20
\* The device state the next invocation loads from the store; -1 when the
\* record is there but cannot be read.
Persisted(st) ==
  LET l == loadDeviceStatus(st, TRUE)
  IN  IF l.err # Nil THEN -1 ELSE l.state

AllowedTransitions ==
  { <<FDO_STATE_PRE_DI, FDO_STATE_PRE_TO1>>,
    <<FDO_STATE_PRE_TO1, FDO_STATE_IDLE>>,
    <<FDO_STATE_IDLE, FDO_STATE_PRE_TO1>> }

C20_TransitionStep ==
  (Persisted(store') # Persisted(store)) =>
    (<<Persisted(store), Persisted(store')>> \in AllowedTransitions)

\* C20 as stated: over any sequence of device-init and onboard invocations
\* the persisted device state changes only by PreDI -> PreTO1,
\* PreTO1 -> Idle or Idle -> PreTO1.
C20_OnlyAllowedTransitions == [][C20_TransitionStep]_vars

\* ---------------------------------------------------------------- C21
C21_ListenerState ==
  /\ sigCancels <= 1
  /\ (sigCancels = 1) => canceled
  /\ canceled => (sigCancels = 1 \/ pc \in {"exec_returned", "killed"})
  /\ (listener = "exited") => (~notify /\ canceled)
  /\ (pc = "killed") => (listener = "exited" /\ signals >= 1 + sigCancels)

C21_ListenerStep ==
  /\ (sigCancels' # sigCancels) =>
       (signals >= 1 /\ sigCancels = 0 /\ listener = "select" /\ canceled')
  /\ (signals = 0 /\ signals' = 1 /\ notify) => (sigs' = 1 /\ pc' = pc)
  /\ (canceled' # canceled) => (sigCancels' = 1 \/ pc' = "exec_returned")
  /\ (listener = "exited") => (sigCancels' = sigCancels)

\* C21: the first interrupt signal delivered while a command runs makes the
\* one listener goroutine cancel the client context (unless the command has
\* returned before the goroutine ran); the goroutine then detaches, and no
\* later signal causes another cancel call.
C21_FirstSignalCancelsOnce ==
  /\ []C21_ListenerState
  /\ [][C21_ListenerStep]_vars
  /\ ((signals >= 1) ~>
        (sigCancels = 1 \/ pc \in {"done", "exec_returned"} \/ listener = "exited"))

C21_Witness ==
  /\ signals = 3 /\ sigCancels = 1 /\ canceled
  /\ listener = "exited" /\ pc = "killed"

\* ---------------------------------------------------------------- C22
C22_AtomicStep ==
  (store' # store) => (store'.nv = "data" /\ exitErr' = Nil)

\* C22 as stated: a save replaces the stored record atomically in both
\* stores: a step either leaves the store as it was or puts the complete new
\* record there, and a failed save leaves the previous record in place.
C22_SaveIsAtomic == [][C22_AtomicStep]_vars

\* ---------------------------------------------------------------- C23
C23_RvOnlyStep ==
  (pc = "cmd" /\ ev'.arg = "rv-only" /\ LoadedState = FDO_STATE_PRE_TO1) =>
    (pc' = "start")

\* C23 as stated: onboard run with --rv-only on a device ready for TO1
\* enters the ownership-transfer run to perform TO1 (and stops before TO2).
C23_RvOnlyPerformsTO1 == [][C23_RvOnlyStep]_vars

\* ---------------------------------------------------------------- C24
\* The key of the configuration file that belongs to flag n.
FileKey(n) == IF n \in PersistentFlags THEN cfg.top[n] ELSE cfg.sub[n]

C24_FlagPrecedence ==
  (pc = "run") =>
    \A n \in FlagNames :
      /\ (args.flags[n] # Nil) => (flags[n].Value = args.flags[n])
      /\ (args.flags[n] = Nil /\ FileKey(n) # Nil) => (flags[n].Value = FileKey(n))
      /\ (args.flags[n] = Nil /\ cfg.top[n] = Nil /\ cfg.sub[n] = Nil) =>
           (flags[n].Value = FlagDefault)

C24_URLPrecedence ==
  (pc = "run" /\ cmdName = "device-init") =>
    /\ (args.pos # Nil) => (diURL = args.pos)
    /\ (args.pos = Nil /\ cfg.sub["server-url"] # Nil) => (diURL = cfg.sub["server-url"])
    /\ (args.pos = Nil /\ cfg.sub["server-url"] = Nil) => (diURL = Nil)

\* C24: the effective value of an option is the command-line value if one
\* was given, otherwise the value of its key in the configuration file if it
\* is set, otherwise the default; the file never overrides the command line.
C24_Precedence == C24_FlagPrecedence /\ C24_URLPrecedence

C24_Witness ==
  /\ pc = "run" /\ cmdName = "device-init"
  /\ args.flags["blob"] = CliValue /\ cfg.top["blob"] = FileValue
  /\ flags["blob"].Value = CliValue
  /\ args.flags["insecure-tls"] = Nil /\ cfg.sub["insecure-tls"] = FileValue
  /\ flags["insecure-tls"].Value = FileValue
  /\ args.pos = CliValue /\ cfg.sub["server-url"] = FileValue /\ diURL = CliValue

\* ---------------------------------------------------------------- C25
SizeInRange == 0 <= maxServiceInfoSize /\ maxServiceInfoSize <= MaxUint16

C25_ValidationStep ==
  OnboardRan =>
    /\ (ev'.arg = "validation_error") <=> ~SizeInRange
    /\ ~SizeInRange =>
         (pc' = "done" /\ exitErr' = ErrValidation /\ store' = store
            /\ fsims' = NoFsims)

C25_SizeState ==
  /\ (pc \in {"start", "discover", "to1", "to2", "delay", "wait", "returned"}) =>
       SizeInRange
  /\ (pc \in {"discover", "to1", "to2", "delay", "wait", "returned"}) =>
       (MaxServiceInfoSizeReceive = maxServiceInfoSize)

\* C25: onboard accepts max-serviceinfo-size v iff 0 <= v <= 65535, rejects
\* every other value before any protocol call, and the 16-bit
\* MaxServiceInfoSizeReceive of the TO2 configuration equals the value given.
C25_ServiceInfoSizeChecked == []C25_SizeState /\ [][C25_ValidationStep]_vars

C25_Witness ==
  /\ pc = "to2"
  /\ maxServiceInfoSize = MaxUint16
  /\ MaxServiceInfoSizeReceive = MaxUint16

\* ---------------------------------------------------------------- C26
StandardModules == {"fdo.command", "fdo.download", "fdo.upload", "fdo.wget"}

IsDirectChild(q, dir) ==
  /\ q.abs = dir.abs
  /\ Len(q.parts) = Len(dir.parts) + 1
  /\ SubSeq(q.parts, 1, Len(dir.parts)) = dir.parts
  /\ q.parts[Len(q.parts)] \notin {"", ".", ".."}

\* C28 as stated: with a download (wget) directory configured, NameToPath
\* maps every name the owner sends to a direct child of that directory.
C28_AlwaysDirectChild ==
  (pc = "named") =>
    IsDirectChild(path, DirPath(IF ev.arg = "fdo.download" THEN dlDir ELSE wgetDir))

\* ---------------------------------------------------------------- C29
\* The entry handled by the step, and what the step appended.
EntryStep == pc = "expand" /\ addrIdx' = addrIdx + 1

Appended == SubSeq(ownerURLs', Len(ownerURLs) + 1, Len(ownerURLs'))

IsDropped(a) ==
  \/ a.DNSAddress = Nil /\ a.IPAddress = Nil
  \/ a.TransportProtocol \notin {HTTPTransport, HTTPSTransport}

C29_DropStep ==
  EntryStep =>
    /\ pc' = "expand" /\ runErr' = Nil
    /\ Len(ownerURLs') >= Len(ownerURLs)
    /\ SubSeq(ownerURLs', 1, Len(ownerURLs)) = ownerURLs
    /\ IsDropped(rvAddrs[addrIdx]) => (ownerURLs' = ownerURLs)

C29_AllVisited ==
  /\ (pc = "expanded") => (addrIdx = Len(rvAddrs) + 1 /\ runErr = Nil)
  /\ (pc = "expand") => (addrIdx \in 1..(Len(rvAddrs) + 1))

\* C29: an address entry with neither DNS nor IP, or with a transport other
\* than HTTP/HTTPS, adds no owner URL and does not end the expansion: the
\* entries after it are handled, in order, and what was collected is kept.
C29_DroppedEntryDoesNotAbort == []C29_AllVisited /\ [][C29_DropStep]_vars

C29_Witness ==
  /\ pc = "expanded" /\ Len(rvAddrs) = 3
  /\ EntryKind(rvAddrs[1]) = "both_null"
  /\ EntryKind(rvAddrs[2]) = "unsupported_transport"
  /\ ownerURLs = << [scheme |-> "http", host |-> "owner.example", port |-> 80],
                    [scheme |-> "http", host |-> "10.0.0.1", port |-> 80] >>

\* ---------------------------------------------------------------- C30
HasHost(seq, h) == \E m \in 1..Len(seq) : seq[m].host = h

C30_EntryStep ==
  (EntryStep /\ ~IsDropped(rvAddrs[addrIdx])
     /\ rvAddrs[addrIdx].DNSAddress # Nil /\ rvAddrs[addrIdx].IPAddress # Nil) =>
    LET a == rvAddrs[addrIdx] IN
    /\ HasHost(Appended, a.DNSAddress) <=> resolved'
    /\ HasHost(Appended, a.IPAddress) <=> a.IPValid
    /\ Len(Appended) = (IF resolved' THEN 1 ELSE 0) + (IF a.IPValid THEN 1 ELSE 0)
    /\ pc' = "expand" /\ runErr' = Nil

\* C30: for an entry with both a DNS name and an IP, the DNS-based URL is
\* emitted iff the name resolves at that moment and the IP-based URL iff the
\* IP is valid, each independently of the other; a name that does not resolve
\* costs neither the entry's IP URL nor the discovery.
C30_DNSAndIPIndependent == [][C30_EntryStep]_vars

C30_Witness ==
  /\ pc = "expand" /\ addrIdx = 2 /\ ev = Event("entry", "expanded")
  /\ rvAddrs[1].DNSAddress = "owner.example" /\ ~resolved
  /\ ownerURLs = << [scheme |-> "http", host |-> "10.0.0.1", port |-> 80] >>

\* ---------------------------------------------------------------- C31
C31_URLStep ==
  EntryStep =>
    \A m \in 1..Len(Appended) :
      LET u == Appended[m]
          a == rvAddrs[addrIdx]
      IN  /\ a.TransportProtocol \in {HTTPTransport, HTTPSTransport}
          /\ (a.TransportProtocol = HTTPTransport) =>
               (u.scheme = "http" /\ u.port = (IF a.Port # 0 THEN a.Port ELSE 80))
          /\ (a.TransportProtocol = HTTPSTransport) =>
               (u.scheme = "https" /\ u.port = (IF a.Port # 0 THEN a.Port ELSE 443))

\* C31: an owner URL built from an address entry has scheme http and port 80
\* for HTTP transport, scheme https and port 443 for HTTPS transport, and the
\* entry's own port instead whenever that port is not 0.
C31_SchemeAndPort == [][C31_URLStep]_vars

C31_Witness ==
  /\ pc = "expanded"
  /\ ownerURLs = << [scheme |-> "https", host |-> "10.0.0.2", port |-> 443],
                    [scheme |-> "http", host |-> "owner.example", port |-> 8080],
                    [scheme |-> "https", host |-> "alt.example", port |-> 8443] >>

\* ---------------------------------------------------------------- C32
C32_WaitStep ==
  (pc = "jwait" /\ pc' = "jdone" /\ waitDur > 0)
    => /\ canceled => runErr' = ErrCanceled
       /\ ~canceled => runErr' = Nil
       /\ runErr' \in {ErrCanceled, Nil}

\* C32: a wait with a positive delay returns the cancellation error whenever
\* the context is canceled before the delay has elapsed, also when it was
\* already canceled on entry, and returns nil only when the delay elapsed
\* with the context not canceled.
C32_CancelWins == [][C32_WaitStep]_vars

\* C32 witness: the context was canceled before applyDelay was entered with
\* a positive delay, and applyDelay has returned the cancellation error.
C32_Witness ==
  /\ pc = "jdone" /\ waitDur > 0 /\ canceled
  /\ runErr = ErrCanceled
  /\ ev = Event("wait_canceled", "ctx_done")

\* ---------------------------------------------------------------- C33
\* At a TO2 call the redirect is nil for a bypass directive and otherwise the
\* one TO1 returned for the directive being visited.
C33_RedirectOfThisVisit ==
  pc = "to2" =>
    to1d = (IF directives[i].Bypass THEN NoTo1d ELSE << [visit |-> i] >>)

\* Every visit starts without a redirect; a non-bypass directive with RV URLs
\* goes to TO1 first; the owner-URL loop is entered from discovery only by
\* bypass and otherwise only by a TO1 success of this visit; within the
\* owner-URL loop the redirect is not replaced.
C33_RedirectStep ==
  /\ pc = "discover" =>
       /\ pc' # "discover" => to1d' = NoTo1d
       /\ (~directives[i].Bypass /\ Len(directives[i].URLs) > 0) => pc' \in {"discover", "to1"}
       /\ pc' = "to2" => directives[i].Bypass
  /\ (pc = "to1" /\ pc' = "to2") =>
       (ev'.op = "to1_succeeded" /\ i' = i /\ to1d' = << [visit |-> i] >>)
  /\ (pc \in {"delay", "start"}) => pc' # "to2"
  /\ (pc \in {"to2", "wait"} /\ pc' \in {"to2", "wait"}) => (to1d' = to1d /\ i' = i)
  /\ (pc = "wait" /\ pc' = "to2") => waitKind = "retry"

\* C33: every TO2 attempt is given the redirect of the TO1 success of the
\* same visit of its directive (nil under bypass); a redirect is never kept
\* from an earlier directive or pass, and TO1 is performed again on every
\* visit of a non-bypass directive.
C33_FreshRedirect == []C33_RedirectOfThisVisit /\ [][C33_RedirectStep]_vars

\* C33 witness: after the visit of the first directive ended in a wait, the
\* second directive is not a bypass and its TO2 call holds the redirect of its
\* own TO1 success.
C33_Witness ==
  /\ pc = "to2" /\ i = 2 /\ ~directives[2].Bypass
  /\ to1d = << [visit |-> 2] >>
  /\ ev.op = "to1_succeeded"
  /\ Len(passWaits) > 0

\* ---------------------------------------------------------------- C35
\* The base the wait after the last directive must have.
LastBase ==
  IF directives[Len(directives)].Delay # 0 THEN directives[Len(directives)].Delay
  ELSE DefaultDelay

\* A completed pass has waited after its last directive, on a positive base.
C35_PassHasWait ==
  PassCompleted =>
    /\ Len(passWaits) >= 1
    /\ LET w == passWaits[Len(passWaits)] IN
       /\ w.idx = Len(directives)
       /\ w.kind \in {"directive", "default"}
       /\ w.base = LastBase /\ w.base > 0

\* The first directive is visited again only out of an elapsed jittered wait
\* of positive duration; every jittered wait is positive.
C35_WrapStep ==
  /\ (pc \notin {"start", "discover"} /\ pc' = "discover" /\ i' = 1)
       => /\ pc = "wait" /\ waitKind \in {"directive", "default"}
          /\ i = Len(directives)
          /\ waitBase = LastBase /\ waitBase > 0 /\ waitDur > 0
          /\ ev' = Event("wait_elapsed", waitKind)
  /\ (pc = "delay" /\ pc' = "wait") => (waitBase' > 0 /\ waitDur' > 0)

\* C35: the retry loop never busy-loops: a pass that goes on to a new pass has
\* ended in a jittered wait whose base is the last directive's own nonzero
\* delay or the 120 s default, so the first directive is never visited again
\* without a wait since its previous visit.
C35_NoBusyLoop == []C35_PassHasWait /\ [][C35_WrapStep]_vars

\* C35 witness: a list of two directives without any delay, neither of which
\* produced an owner URL that succeeded, starts its next pass after the default
\* wait, the only wait of the pass.
C35_Witness ==
  /\ PassCompleted /\ Len(directives) = 2
  /\ directives[1].Delay = 0 /\ directives[2].Delay = 0
  /\ Len(passWaits) = 1 /\ passWaits[1].kind = "default"
  /\ ~canceled

\* ---------------------------------------------------------------- C34
\* The owner URLs discovery can yield.
LiveURLs ==
  { URLPool[m] : m \in 1..2 } \cup
  UNION { { urls[m] : m \in 1..Len(urls) } : urls \in To1Expansions }

\* Discovery of directive d ends by yielding owner URLs with g among them.
DiscoveryYields(d, g) ==
  (pc \in {"discover", "to1"} /\ i = d /\ pc' \notin {"discover", "to1"})
    => (pc' = "to2" /\ \E m \in 1..Len(ownerURLs') : ownerURLs'[m] = g)

\* TO2 on owner URL g of directive d returns a credential.
TO2Succeeds(d, g) ==
  (pc = "to2" /\ i = d /\ ownerURLs[j] = g)
    => (pc' = "returned" /\ runCred' # Nil)

\* C34: with a context that is never canceled and calls and waits that all
\* return, if from some point on the discovery of some directive always
\* yields an owner URL on which TO2 returns a credential whenever it is
\* attempted, Run eventually returns a non-nil credential.
C34_EventuallyOnboarded ==
  (\E d \in 1..MaxDirs, g \in LiveURLs :
      /\ d <= Len(directives)
      /\ <>[][DiscoveryYields(d, g)]_vars
      /\ <>[][TO2Succeeds(d, g)]_vars)
  => <>(pc = "returned" /\ runCred # Nil /\ runErr = Nil)

\* C34 witness: after the first directive's owner URLs have failed and its
\* delay has elapsed, TO2 on an owner URL of the second directive returned
\* the credential and Run has returned it.
C34_Witness ==
  /\ pc = "returned" /\ runCred # Nil /\ runErr = Nil
  /\ i = 2 /\ Len(passWaits) = 1 /\ passWaits[1].idx = 1
  /\ ev = Event("to2_returned", "credential")
  /\ ~canceled

\* ---------------------------------------------------------------- C36
\* With the context canceled, the loop does not go back to the first
\* directive, and what Run returns out of the loop is the cancellation error
\* or the credential of the TO2 call that just returned.
C36_CanceledStep ==
  (canceled /\ InLoop) =>
    /\ ~(pc # "discover" /\ pc' = "discover" /\ i' = 1)
    /\ i' >= i
    /\ pc' = "returned" =>
         \/ runErr' = ErrCanceled /\ runCred' = Nil /\ pc = "wait"
         \/ /\ runErr' = Nil /\ runCred' # Nil /\ pc = "to2"
            /\ ev' = Event("to2_returned", "credential")

\* C36: once the context is canceled while Run is in its loop, and every TO1
\* and TO2 call returns, Run returns before a further pass over the directive
\* list begins, with the cancellation error or with the credential of a TO2
\* that still succeeded.
C36_TerminatesAfterCancel ==
  /\ [][C36_CanceledStep]_vars
  /\ (canceled /\ InLoop) ~> Returned

\* C36 witness: the context was canceled during the first directive; TO2 on
\* its owner URLs still failed, the loop went on to the second directive, whose
\* calls failed as well, and Run returned the cancellation error out of the
\* wait that follows it.
C36_Witness ==
  /\ pc = "returned" /\ canceled /\ runErr = ErrCanceled /\ runCred = Nil
  /\ i = 2 /\ passWaits = << [idx |-> 2, kind |-> "default", base |-> DefaultDelay] >>
  /\ directives[1].Delay = 0
  /\ ev = Event("wait_canceled", "default")

\* ---------------------------------------------------------------- C37
\* The goroutine leaves its select only by taking a signal, which it answers
\* with cancel(), or on a context that is done; having left it, it stops the
\* signal delivery and ends, and it never comes back.
C37_ListenerStep ==
  /\ (listener = "select" /\ listener' # "select") =>
       /\ listener' = "stopping"
       /\ \/ sigs > 0 /\ sigs' = sigs - 1 /\ canceled' /\ sigCancels' = sigCancels + 1
          \/ canceled /\ sigCancels' = sigCancels /\ sigs' = sigs
  /\ (listener = "stopping" /\ listener' # "stopping") => (listener' = "exited" /\ ~notify')
  /\ (listener = "exited") => (listener' = "exited" /\ ~notify')
  /\ (pc = "done" /\ pc' # "done") => canceled'

\* C37: the listener goroutine always ends and detaches from signal
\* delivery: after the first interrupt it cancels the context and ends, and
\* when the command finishes without an interrupt the deferred cancel() of
\* Execute ends it; it does not stay blocked once Execute has returned.
C37_ListenerTerminates ==
  /\ [][C37_ListenerStep]_vars
  /\ [](listener = "exited" => ~notify)
  /\ ((signals >= 1) ~> (listener = "exited"))
  /\ ((pc = "exec_returned") ~> (listener = "exited"))

\* C37 witness: the command has finished and Execute has returned without
\* any interrupt; the goroutine has ended on the done context and is detached.
C37_Witness ==
  /\ pc = "exec_returned" /\ signals = 0 /\ sigCancels = 0
  /\ canceled /\ listener = "exited" /\ ~notify

\* ---------------------------------------------------------------- C38
\* The step in which doOnboard calls updateCred.
UpdateCredStep == pc = "returned" /\ pc' = "done" /\ ev'.op = "update_cred"

C38_UpdateStep ==
  UpdateCredStep =>
    /\ ev'.arg \in {"written", "read_failed", "save_failed"}
    /\ (ev'.arg = "written") =>
         /\ store' = [store EXCEPT !.DC = runCred, !.State = FDO_STATE_IDLE]
         /\ store'.Secrets = store.Secrets
         /\ credWrites' = credWrites + 1
    /\ (ev'.arg = "read_failed") => (store' = store /\ credWrites' = credWrites)
    /\ (store'.DC # Nil) => (store'.Secrets = store.Secrets)

C38_ReadFailedWitness ==
  /\ pc = "done" /\ ev = Event("update_cred", "read_failed")
  /\ store = InitialStore /\ credWrites = 0 /\ exitErr = ErrIO

\* ---------------------------------------------------------------- C39
\* The names of the allow-list.
Keys == { e.name : e \in uploads }

\* key is the requested path q itself or a directory above it.
Covers(key, q) ==
  /\ key.abs = q.abs
  /\ Len(key.parts) >= 1
  /\ Len(key.parts) <= Len(q.parts)
  /\ SubSeq(q.parts, 1, Len(key.parts)) = key.parts

\* C39: a syntactically invalid path is refused as invalid whatever the
\* allow-list holds; and with no root entry in the allow-list, a valid path is
\* granted only when it is an entry of the list or lies under one, what is
\* opened then is a path of the list, and every other valid path is refused as
\* not existing.
C39_OnlyAllowListed ==
  (pc = "opened") =>
    /\ ~ValidPath(name) => (ev = Event("open", "invalid") /\ path = NoPath)
    /\ (ValidPath(name) /\ RootPath \notin Keys) =>
         IF \E key \in Keys : Covers(key, name)
         THEN /\ ev = Event("open", "granted")
              /\ \E e \in uploads : Covers(e.name, name) /\ path = Clean(e.abs)
         ELSE ev = Event("open", "not exist") /\ path = NoPath

\* C39 witness: with the allow-list of `--upload a/b`, the path a/b/a below
\* the entry has been granted.
C39_Witness ==
  /\ pc = "opened" /\ ev = Event("open", "granted")
  /\ uploadArg = << [abs |-> FALSE, parts |-> <<"a", "b">>] >>
  /\ name = [abs |-> FALSE, parts |-> <<"a", "b", "a">>]
  /\ path = [abs |-> TRUE, parts |-> <<"w", "a", "b">>]

\* C39 witness of the refusals: a valid path outside the list refused as not
\* existing, with the same allow-list.
C39_RefusedWitness ==
  /\ pc = "opened" /\ ev = Event("open", "not exist")
  /\ uploadArg = << [abs |-> FALSE, parts |-> <<"a", "b">>] >>
  /\ name = [abs |-> FALSE, parts |-> <<"a", "a">>]

====
